---- MODULE Spec2Model ----
(***************************************************************************)
(* VideoCopilot continuous deployment: a model of k8s-deploy.sh (change    *)
(* detection, image build, ordered manifest application, rollout wait and  *)
(* health check), together with the manifest loops of deploy-k8s.sh and of *)
(* the infrastructure setup script.                                        *)
(*                                                                         *)
(* A file path is a sequence of tokens whose concatenation is the path;    *)
(* the token boundaries fall on the boundaries of the grep patterns of the *)
(* scripts, so that "the line starts with the pattern" is "the pattern's   *)
(* tokens are a prefix of the path's tokens".                              *)
(***************************************************************************)
EXTENDS Integers, Sequences, FiniteSets, TLC

\* ------------------------------------------------------------------------
\* Bounds
\* ------------------------------------------------------------------------

\* largest number of paths one git query reports
MaxChanged == 2

\* commits the repository can hold (HEAD is a number 1..MaxCommits)
MaxCommits == 2

\* script invocations in one behaviour
MaxRuns == 2

\* signup requests served at the same time
MaxSignups == 2

\* GETs of the project page under way at the same time
MaxInFlight == 2

\* WebSockets the project page creates in one behaviour
MaxSockets == 3

\* ------------------------------------------------------------------------
\* Configuration of k8s-deploy.sh
\* ------------------------------------------------------------------------

DOCKER_REGISTRY == "your-registry.com"

\* declare -A SERVICES: service -> directory prefix (tokens)
SERVICES ==
  [s \in {"web-app", "embedding-service", "intelligence-service",
          "video-processing-service"} |-> <<s, "/">>]

ServiceNames == DOMAIN SERVICES

\* grep -qE "^(k8s/|docker-compose|Dockerfile|infrastructure/|jenkins/)"
InfraPatterns ==
  { <<"k8s", "/">>, <<"docker-compose">>, <<"Dockerfile">>,
    <<"infrastructure", "/">>, <<"jenkins", "/">> }

\* the same array with the front end put first
deploy_order_webFirst ==
  <<"web-app", "embedding-service", "intelligence-service",
    "video-processing-service">>

\* local deploy_order=(...)
deploy_order ==
  <<"embedding-service", "intelligence-service",
    "video-processing-service", "web-app">>

\* the paths a git query can report
Paths ==
  { <<"web-app", "/", "app/page.tsx">>,
    <<"web-app", "/", "Dockerfile">>,
    <<"embedding-service", "/", "main.py">>,
    <<"intelligence-service", "/", "main.py">>,
    <<"video-processing-service", "/", "main.py">>,
    <<"k8s", "/", "05-web-app.yaml">>,
    <<"docker-compose", ".yml">>,
    <<"README.md">> }

PathSets == { fs \in SUBSET Paths : Cardinality(fs) <= MaxChanged }

\* command lines given to k8s-deploy.sh
ArgVectors ==
  { <<>>,
    <<"--build-all">>,
    <<"--skip-build">>,
    <<"--skip-deploy">>,
    <<"--dry-run">>,
    <<"--build-all", "--skip-deploy">>,
    <<"-s", "web-app">>,
    <<"-s", "embedding-service">>,
    <<"-s", "web-app", "--skip-build">>,
    <<"-s", "web-app", "--skip-deploy">>,
    <<"-s", "web-app", "--dry-run">>,
    <<"-s", "api-gateway">>,
    <<"-s">>,
    <<"-e", "prod">>,
    <<"--monitoring">>,
    <<"--jenkins">>,
    <<"--monitoring", "--dry-run">>,
    <<"--verbose">>,
    <<"--skip-build", "--verbose">>,
    <<"-h">> }

\* ------------------------------------------------------------------------
\* Pure helpers
\* ------------------------------------------------------------------------

\* grep "^pat" on one line
StartsWith(path, pat) ==
  /\ Len(pat) <= Len(path)
  /\ \A i \in 1..Len(pat) : path[i] = pat[i]

\* echo "$files" | grep -q "^pat"
GrepPrefix(files, pat) == \E f \in files : StartsWith(f, pat)

\* the same grep without the ^ anchor: the pattern matches anywhere in a line
GrepInfra_unanchored(files) ==
  \E f \in files : \E p \in InfraPatterns : \E k \in 1..Len(f) :
    k + Len(p) - 1 <= Len(f) /\ SubSeq(f, k, k + Len(p) - 1) = p

\* echo "$files" | grep -qE "^(k8s/|...)"
GrepInfra(files) == \E f \in files : \E p \in InfraPatterns : StartsWith(f, p)

\* ------------------------------------------------------------------------
\* State
\* ------------------------------------------------------------------------

VARIABLES
  \* the git checkout the script runs in
  head,                \* the commit HEAD names, 1..MaxCommits
  repo,                \* "ok": HEAD~1 exists; "first": HEAD is the first
                       \* commit; "broken": every git command fails
  gitFiles,            \* repo = "ok": what git diff --name-only HEAD~1 HEAD
                       \* lists; repo = "first": what git ls-files lists
  \* what outlives a run
  tmpImage,            \* /tmp/videocopilot-<service>-image.txt, <<>> if absent
  registry,            \* the image tags the registry holds
  cluster,             \* resource -> what was last applied, <<>> if nothing
  \* one run of k8s-deploy.sh
  pc,                  \* the position of the run
  script,              \* the script that runs, "" before it starts
  argv,                \* its command line
  DRY_RUN, BUILD_ALL, SKIP_BUILD, SKIP_DEPLOY, TARGET_SERVICE,
  services_to_process, \* main's local array, as a set
  single,              \* TRUE in the branch of main that serves -s SERVICE
  pending,             \* the services the build loop has still to visit
  deployIdx,           \* index into deploy_order of the service in deployment
  built,               \* the services build_service completed for in this run
  log,                 \* the kubectl apply / wait commands issued, in order
  failure,             \* <<>>, or <<step, resource>> of the command that
                       \* ended the run
  runs,                \* invocations so far
  \* history, read by the properties only
  lastRun,             \* <<script, argv, commit>> of the run before this one
                       \* if it ended with exit 0, <<>> otherwise
  atStart,             \* <<registry, cluster>> as the current run found them
  missing_tools,       \* the required tools the prerequisite check of the
                       \* run found absent
  \* deploy.sh
  attempt,             \* the counter of the connectivity loop, 0 when unset
  \* a second invocation of k8s-deploy.sh on the same cluster
  other,               \* its position, its service and the commands it issued
  \* the tables of the web application's database, as sets of rows
  Project, Video, Transcript, Embedding,
  request,             \* the API request being served, <<>> if none
  dbLog,               \* the requests received, in order
  S3,                  \* the keys of the objects the bucket holds
  Pinecone,            \* the namespaces of the index that hold vectors
  User,                \* the User table
  signup,              \* the signup requests being served, by handler
  served,              \* the last request a one-query handler answered, with
                       \* what the answer disclosed and what the handler did
  \* the project page in one browser tab
  mounted,             \* the component is mounted
  project,             \* project?.status of the state, "" while project is null
  interval,            \* <<>> if no interval is set, else <<status>>: the
                       \* project?.status the callback of the interval closed over
  inflight,            \* the GETs under way: "sent", or the status the server
                       \* answered with
  serverStatus,        \* Project.status in the database
  lastFetch,           \* what issued the GETs so far: <<>>, or <<"effect" or
                       \* "timer", status of the state at that moment>>;
                       \* read by the properties only
  \* the chat of the project page
  sockets,             \* readyState of every WebSocket the page created
  wsRef,               \* wsRef.current: 0 for null, else the socket
  isConnected,         \* chatState.isConnected
  connectionError,     \* chatState.connectionError is set
  \* the namespace videocopilot of the cluster, as deploy-k8s.sh sees it
  objects,             \* what the namespace, the secret and the configmap
                       \* hold, Absent for an object that does not exist
  dotenv               \* the values the run sourced from .env, <<>> before

envVars == <<head, repo, gitFiles>>
hostVars == <<tmpImage, registry, cluster>>
flagVars == <<DRY_RUN, BUILD_ALL, SKIP_BUILD, SKIP_DEPLOY, TARGET_SERVICE>>
runVars == <<services_to_process, single, pending, deployIdx, built, log, failure>>
histVars == <<lastRun, atStart>>
storeVars == <<S3, Pinecone>>
apiVars == <<Project, Video, Transcript, Embedding, request, dbLog, storeVars>>
pageVars == <<mounted, project, interval, inflight, serverStatus, lastFetch>>
chatVars == <<sockets, wsRef, isConnected, connectionError>>
webVars == <<User, signup, served, pageVars, chatVars>>
secretVars == <<objects, dotenv>>
otherVars == <<attempt, other, apiVars, webVars, secretVars>>
scriptVars ==
  <<envVars, hostVars, pc, script, argv, flagVars, runVars, runs, histVars,
    missing_tools>>
vars == <<scriptVars, otherVars>>

Absent == <<>>

\* NAMESPACE="videocopilot"
NAMESPACE == "videocopilot"

\* SECRET_NAME="videocopilot-secrets"
SECRET_NAME == "videocopilot-secrets"

\* CONFIGMAP_NAME="videocopilot-config"
CONFIGMAP_NAME == "videocopilot-config"

Resources ==
  ServiceNames \cup {"namespace-secrets", "database", "ingress",
                     "monitoring", "jenkins"}

\* git rev-parse --short HEAD
commit_hash == ToString(head)

\* the image tagged by the number of the run instead of the commit
image_tag_perRun(service) == <<DOCKER_REGISTRY, service, ToString(runs)>>

\* image_tag="${DOCKER_REGISTRY}/videocopilot/${service}:${commit_hash}"
image_tag(service) == <<DOCKER_REGISTRY, service, commit_hash>>

\* latest_tag="${DOCKER_REGISTRY}/videocopilot/${service}:latest"
latest_tag(service) == <<DOCKER_REGISTRY, service, "latest">>

\* the image line of a service manifest that deploy_service's sed looks for
ManifestImage(service) == <<"", service, "latest">>

\* sed "s|image: videocopilot/${service}:latest|image: ${image_tag}|g"
SedImage(line, service, tag) ==
  IF line = ManifestImage(service) THEN tag ELSE line

\* ------------------------------------------------------------------------
\* parse_args
\* ------------------------------------------------------------------------

\* the defaults of lines 24-30
DefaultFlags ==
  [DRY_RUN |-> FALSE, BUILD_ALL |-> FALSE, SKIP_BUILD |-> FALSE,
   SKIP_DEPLOY |-> FALSE, TARGET_SERVICE |-> "", status |-> "ok"]

Rest(args, n) == SubSeq(args, n + 1, Len(args))

\* the while/case loop; status "help" is exit 0 after show_usage, "error"
\* is exit 1 (an unknown option, or shift 2 with one argument left under
\* set -e)
RECURSIVE parse_args(_, _)
parse_args(args, st) ==
  IF args = <<>> THEN st
  ELSE LET a == Head(args) IN
    CASE a \in {"-e", "--environment"} ->
           IF Len(args) >= 2 THEN parse_args(Rest(args, 2), st)
           ELSE [st EXCEPT !.status = "error"]
      [] a \in {"-s", "--service"} ->
           IF Len(args) >= 2
           THEN parse_args(Rest(args, 2), [st EXCEPT !.TARGET_SERVICE = args[2]])
           ELSE [st EXCEPT !.TARGET_SERVICE = "", !.status = "error"]
      [] a \in {"-h", "--help"} -> [st EXCEPT !.status = "help"]
      [] a = "--dry-run" -> parse_args(Rest(args, 1), [st EXCEPT !.DRY_RUN = TRUE])
      [] a = "--build-all" -> parse_args(Rest(args, 1), [st EXCEPT !.BUILD_ALL = TRUE])
      [] a = "--skip-build" -> parse_args(Rest(args, 1), [st EXCEPT !.SKIP_BUILD = TRUE])
      [] a = "--skip-deploy" -> parse_args(Rest(args, 1), [st EXCEPT !.SKIP_DEPLOY = TRUE])
      [] a = "--monitoring" ->
           parse_args(Rest(args, 1), [st EXCEPT !.TARGET_SERVICE = "monitoring"])
      [] a = "--jenkins" ->
           parse_args(Rest(args, 1), [st EXCEPT !.TARGET_SERVICE = "jenkins"])
      [] OTHER -> [st EXCEPT !.status = "error"]

\* ------------------------------------------------------------------------
\* detect_changes and the selection of main
\* ------------------------------------------------------------------------

\* changed_files=$(git diff --name-only HEAD~1 HEAD 2>/dev/null || git ls-files)
changed_files ==
  CASE repo = "ok" -> gitFiles
    [] repo = "first" -> gitFiles
    [] OTHER -> {}

\* git diff --name-only HEAD~1 HEAD, as main runs it again (no fall-back)
DiffNames == IF repo = "ok" THEN gitFiles ELSE {}

\* the services whose directory prefix starts a line of files
ServicesMatching(files) ==
  { s \in ServiceNames : GrepPrefix(files, SERVICES[s]) }

\* detect_changes: its return code and the BUILD_ALL it leaves
detect_changes(buildAll, target) ==
  IF buildAll \/ target # ""
  THEN [rc |-> 0, BUILD_ALL |-> buildAll]
  ELSE IF changed_files = {}
  THEN [rc |-> 1, BUILD_ALL |-> buildAll]
  ELSE IF GrepInfra(changed_files)
  THEN [rc |-> 0, BUILD_ALL |-> TRUE]
  ELSE IF ServicesMatching(changed_files) = {}
  THEN [rc |-> 1, BUILD_ALL |-> buildAll]
  ELSE [rc |-> 0, BUILD_ALL |-> buildAll]

\* the else branch alone: BUILD_ALL set by detect_changes is not looked at
SelectServices_changedOnly(buildAll) == ServicesMatching(DiffNames)

\* services_to_process of main
SelectServices(buildAll) ==
  IF buildAll THEN ServiceNames ELSE ServicesMatching(DiffNames)

\* ------------------------------------------------------------------------
\* Initial state: a checkout, a host and a cluster no run has touched
\* ------------------------------------------------------------------------

IdleRun ==
  /\ pc = "idle"
  /\ script = ""
  /\ argv = <<>>
  /\ DRY_RUN = FALSE /\ BUILD_ALL = FALSE /\ SKIP_BUILD = FALSE
  /\ SKIP_DEPLOY = FALSE /\ TARGET_SERVICE = ""
  /\ services_to_process = {}
  /\ single = FALSE
  /\ pending = {}
  /\ deployIdx = 0
  /\ built = {}
  /\ log = <<>>
  /\ failure = <<>>
  /\ missing_tools = {}
  /\ attempt = 0

\* no project request, an empty database, empty stores
IdleApi ==
  /\ Project = {} /\ Video = {} /\ Transcript = {} /\ Embedding = {}
  /\ request = <<>>
  /\ dbLog = <<>>
  /\ S3 = {} /\ Pinecone = {}

\* no user, no signup under way
\* no tab shows the project page
IdlePage ==
  /\ mounted = FALSE
  /\ project = ""
  /\ interval = <<>>
  /\ inflight = <<>>
  /\ serverStatus = "PENDING"
  /\ lastFetch = <<>>

\* no socket was created
IdleChat ==
  /\ sockets = <<>>
  /\ wsRef = 0
  /\ isConnected = FALSE
  /\ connectionError = FALSE

IdleWeb ==
  /\ User = {}
  /\ signup = <<>>
  /\ served = <<>>
  /\ IdlePage
  /\ IdleChat

\* deploy-k8s.sh has created nothing in the cluster
IdleSecrets ==
  /\ objects = [o \in {NAMESPACE, SECRET_NAME, CONFIGMAP_NAME} |-> Absent]
  /\ dotenv = <<>>

\* no second invocation, and the web application at rest
IdleOther ==
  /\ other = <<>>
  /\ IdleSecrets
  /\ IdleApi
  /\ IdleWeb

InitWith(pathSets) ==
  /\ head = 1
  /\ repo \in {"ok", "first", "broken"}
  /\ gitFiles \in (IF repo = "broken" THEN {{}} ELSE pathSets)
  /\ tmpImage = [s \in ServiceNames |-> Absent]
  /\ registry = {}
  /\ cluster = [r \in Resources |-> Absent]
  /\ runs = 0
  /\ lastRun = <<>>
  /\ atStart = <<registry, cluster>>
  /\ IdleRun
  /\ IdleOther

Init == InitWith(PathSets)

\* ------------------------------------------------------------------------
\* main, up to the build phase
\* ------------------------------------------------------------------------

\* the script without set -e: a failing command is passed over
ErrExit_off(ok, next) == next

\* set -e: a command that returns non-zero outside a condition ends the run
ErrExit(ok, next) == IF ok THEN next ELSE "failed"

\* parse_args that goes on to the next argument after an unknown option
AfterParse_errorGoesOn(status, next) ==
  IF status = "help" THEN "done" ELSE next

\* main after parse_args: exit 0 after --help, exit 1 after an unknown
\* option (or a failed shift), else the next step of main
AfterParse(status, next) ==
  CASE status = "ok" -> next
    [] status = "help" -> "done"
    [] OTHER -> "failed"

\* ./k8s-deploy.sh "$@"
Invoke(args) ==
  /\ pc = "idle"
  /\ runs' = runs + 1
  /\ script' = "k8s-deploy.sh"
  /\ argv' = args
  /\ pc' = "parse"
  /\ atStart' = <<registry, cluster>>
  /\ UNCHANGED <<otherVars, missing_tools, envVars, hostVars, flagVars, runVars, lastRun>>

\* parse_args "$@"
ParseArgs ==
  /\ pc = "parse"
  /\ LET st == parse_args(argv, DefaultFlags) IN
       /\ DRY_RUN' = st.DRY_RUN
       /\ BUILD_ALL' = st.BUILD_ALL
       /\ SKIP_BUILD' = st.SKIP_BUILD
       /\ SKIP_DEPLOY' = st.SKIP_DEPLOY
       /\ TARGET_SERVICE' = st.TARGET_SERVICE
       /\ pc' = AfterParse(st.status, "prereq")
       /\ failure' = IF st.status = "error" THEN <<"parse_args", "">> ELSE <<>>
  /\ UNCHANGED <<otherVars, missing_tools, envVars, hostVars, script, argv, runs, histVars,
                 services_to_process, single, pending, deployIdx, built, log>>

\* the tools main requires: kubectl, and docker unless the build is skipped
RequiredTools(skipBuild) ==
  {"kubectl"} \cup (IF skipBuild THEN {} ELSE {"docker"})

\* the prerequisite test that leaves docker out
AfterPrerequisites_kubectlOnly(missing, required, next) ==
  IF "kubectl" \in missing THEN "failed" ELSE next

\* exit 1 if a required tool is absent, else the next step
AfterPrerequisites(missing, required, next) ==
  IF missing \cap required # {} THEN "failed" ELSE next

\* command -v kubectl / command -v docker
CheckPrerequisites ==
  /\ pc = "prereq"
  /\ \E missing \in SUBSET {"kubectl", "docker"} :
       /\ missing_tools' = missing
       /\ pc' = AfterPrerequisites(missing, RequiredTools(SKIP_BUILD), "dispatch")
       /\ failure' = CASE "kubectl" \in missing -> <<"prereq", "kubectl">>
                       [] "docker" \in missing /\ ~SKIP_BUILD -> <<"prereq", "docker">>
                       [] OTHER -> failure
  /\ UNCHANGED <<otherVars, envVars, hostVars, script, argv, runs, histVars, flagVars,
                 services_to_process, single, pending, deployIdx, built, log>>

\* index of a service in deploy_order
OrderIdx(service) == CHOOSE i \in 1..Len(deploy_order) : deploy_order[i] = service

\* the first service at or after index i that the deploy loop deploys, 0 if none
NextDeploy(i, selected, buildAll) ==
  LET later == { j \in i..Len(deploy_order) :
                   deploy_order[j] \in selected \/ buildAll }
  IN IF later = {} THEN 0 ELSE CHOOSE j \in later : \A k \in later : j <= k

\* where main goes once the build phase is over
AfterBuild(isSingle) ==
  IF SKIP_DEPLOY THEN "health"
  ELSE IF isSingle THEN "svc_apply"
  ELSE "apply_ns"

\* the if / elif chain "Handle specific service deployment requests"
Dispatch ==
  /\ pc = "dispatch"
  /\ IF TARGET_SERVICE = "monitoring"
     THEN /\ pc' = "monitoring"
          /\ UNCHANGED <<services_to_process, single, pending, deployIdx>>
     ELSE IF TARGET_SERVICE = "jenkins"
     THEN /\ pc' = "jenkins"
          /\ UNCHANGED <<services_to_process, single, pending, deployIdx>>
     ELSE IF TARGET_SERVICE # "" /\ TARGET_SERVICE \in ServiceNames
     THEN /\ single' = TRUE
          /\ services_to_process' = {TARGET_SERVICE}
          /\ pending' = IF SKIP_BUILD THEN {} ELSE {TARGET_SERVICE}
          /\ deployIdx' = OrderIdx(TARGET_SERVICE)
          /\ pc' = IF SKIP_BUILD THEN AfterBuild(TRUE) ELSE "build"
     ELSE /\ pc' = "detect"
          /\ UNCHANGED <<services_to_process, single, pending, deployIdx>>
  /\ UNCHANGED <<otherVars, missing_tools, envVars, hostVars, script, argv, runs, histVars, flagVars, built, log, failure>>

\* the test with the comparison of BUILD_ALL turned round
AfterDetect_wrongTest(rc, buildAll) ==
  IF rc # 0 /\ buildAll THEN "done" ELSE "select"

\* if ! detect_changes && [[ $BUILD_ALL == false ]]; then exit 0
AfterDetect(rc, buildAll) ==
  IF rc # 0 /\ ~buildAll THEN "done" ELSE "select"

DetectChanges ==
  /\ pc = "detect"
  /\ LET d == detect_changes(BUILD_ALL, TARGET_SERVICE) IN
       /\ BUILD_ALL' = d.BUILD_ALL
       /\ pc' = AfterDetect(d.rc, d.BUILD_ALL)
  /\ UNCHANGED <<otherVars, missing_tools, envVars, hostVars, script, argv, runs, histVars, DRY_RUN, SKIP_BUILD,
                 SKIP_DEPLOY, TARGET_SERVICE, runVars>>

\* "Build and deploy services": services_to_process, and the test that
\* guards the build phase
Select ==
  /\ pc = "select"
  /\ LET sel == SelectServices(BUILD_ALL) IN
       /\ services_to_process' = sel
       /\ pending' = IF SKIP_BUILD THEN {} ELSE sel
       /\ deployIdx' = NextDeploy(1, sel, BUILD_ALL)
       /\ pc' = IF ~SKIP_BUILD /\ sel # {} THEN "build" ELSE AfterBuild(FALSE)
  /\ UNCHANGED <<otherVars, missing_tools, envVars, hostVars, script, argv, runs, histVars, flagVars,
                 single, built, log, failure>>

\* ------------------------------------------------------------------------
\* build_service
\* ------------------------------------------------------------------------

\* how one call of build_service can end: the directory test fails, docker
\* build fails, the first or the second docker push fails, or all succeed
BuildOutcomes == {"nodir", "build-failed", "push-failed", "push-latest-failed", "ok"}

\* docker push "$image_tag"; docker push "$latest_tag"
PushedTags(service, outcome) ==
  CASE outcome = "ok" -> {image_tag(service), latest_tag(service)}
    [] outcome = "push-latest-failed" -> {image_tag(service)}
    [] OTHER -> {}

\* echo "$image_tag" > "/tmp/videocopilot-${service}-image.txt"
StoreImageTag(service) == [tmpImage EXCEPT ![service] = image_tag(service)]

\* the call written as build_service "$service" || true
AfterBuildStep_orTrue(ok, rest, isSingle) ==
  IF rest = {} THEN AfterBuild(isSingle) ELSE "build"

\* main after one call of build_service: set -e ends the run when the call
\* returns non-zero, else the for loop goes on
AfterBuildStep(ok, rest, isSingle) ==
  ErrExit(ok, IF rest = {} THEN AfterBuild(isSingle) ELSE "build")

\* build_service "$service", for the service the for loop visits next (the
\* loop follows the key order of an associative array, which bash leaves
\* unspecified)
BuildService(service) ==
  /\ pc = "build"
  /\ service \in pending
  /\ pending' = pending \ {service}
  /\ \E outcome \in BuildOutcomes :
       LET gitOk == repo # "broken"
           dry == outcome # "nodir" /\ gitOk /\ DRY_RUN
           ok == \/ dry
                 \/ outcome = "ok" /\ gitOk
           real == outcome # "nodir" /\ gitOk /\ ~DRY_RUN
       IN /\ registry' = IF real THEN registry \cup PushedTags(service, outcome)
                         ELSE registry
          /\ tmpImage' = IF real /\ outcome = "ok" THEN StoreImageTag(service)
                         ELSE tmpImage
          /\ built' = IF real /\ outcome = "ok" THEN built \cup {service} ELSE built
          /\ failure' = IF ok THEN failure ELSE <<"build", service>>
          /\ pc' = AfterBuildStep(ok, pending', single)
  /\ UNCHANGED <<otherVars, missing_tools, envVars, cluster, script, argv, runs, histVars, flagVars,
                 services_to_process, single, deployIdx, log>>

\* ------------------------------------------------------------------------
\* The deploy phase of main and deploy_service
\* ------------------------------------------------------------------------

\* kubectl apply -f <manifest>: the cluster holds what was applied
Applied(resource, what) == [cluster EXCEPT ![resource] = what]

\* kubectl apply -f "$K8S_DIR/00-namespace-secrets.yaml" || true
ApplyNamespace ==
  /\ pc = "apply_ns"
  /\ log' = Append(log, <<"apply", "namespace-secrets">>)
  /\ \E ok \in BOOLEAN :
       cluster' = IF ok THEN Applied("namespace-secrets", <<"applied">>) ELSE cluster
  /\ pc' = "apply_db"
  /\ UNCHANGED <<otherVars, missing_tools, envVars, tmpImage, registry, script, argv, runs, histVars, flagVars,
                 services_to_process, single, pending, deployIdx, built, failure>>

\* kubectl apply -f "$K8S_DIR/01-database.yaml" || true
ApplyDatabase ==
  /\ pc = "apply_db"
  /\ log' = Append(log, <<"apply", "database">>)
  /\ \E ok \in BOOLEAN :
       cluster' = IF ok THEN Applied("database", <<"applied">>) ELSE cluster
  /\ pc' = "wait_db"
  /\ UNCHANGED <<otherVars, missing_tools, envVars, tmpImage, registry, script, argv, runs, histVars, flagVars,
                 services_to_process, single, pending, deployIdx, built, failure>>

\* the wait written without || true: a timeout ends the run
AfterWaitDatabase_fatal(ok) ==
  IF ~ok THEN "failed" ELSE IF deployIdx = 0 THEN "ingress" ELSE "svc_apply"

\* main after the wait for deployment/postgres: || true passes over a
\* timeout, and the deploy loop is entered either way
AfterWaitDatabase(ok) == IF deployIdx = 0 THEN "ingress" ELSE "svc_apply"

\* kubectl wait --for=condition=available --timeout=300s deployment/postgres || true
WaitDatabase ==
  /\ pc = "wait_db"
  /\ \E ok \in BOOLEAN :
       /\ log' = Append(log, <<"wait", "database", IF ok THEN "available" ELSE "timeout">>)
       /\ pc' = AfterWaitDatabase(ok)
  /\ UNCHANGED <<otherVars, missing_tools, envVars, hostVars, script, argv, runs, histVars, flagVars,
                 services_to_process, single, pending, deployIdx, built, failure>>

\* what deploy_service hands to kubectl apply: the manifest with its image
\* line rewritten when the hand-off file exists, the manifest as it is
\* otherwise
DeployImage(service) ==
  IF tmpImage[service] # Absent
  THEN SedImage(ManifestImage(service), service, tmpImage[service])
  ELSE ManifestImage(service)

\* main after deploy_service returned 0
AfterDeployService ==
  IF single THEN /\ pc' = "health"
                 /\ deployIdx' = deployIdx
  ELSE LET n == NextDeploy(deployIdx + 1, services_to_process, BUILD_ALL) IN
         /\ deployIdx' = n
         /\ pc' = IF n = 0 THEN "ingress" ELSE "svc_apply"

\* deploy_service, up to and including kubectl apply
DeployServiceApply ==
  /\ pc = "svc_apply"
  /\ LET service == deploy_order[deployIdx] IN
     \E manifestFound, ok \in BOOLEAN :
       IF ~manifestFound
       THEN /\ pc' = "failed"
            /\ failure' = <<"manifest", service>>
            /\ UNCHANGED <<cluster, log, deployIdx>>
       ELSE IF DRY_RUN
       THEN /\ AfterDeployService
            /\ UNCHANGED <<cluster, log, failure>>
       ELSE /\ log' = Append(log, <<"apply", service, DeployImage(service)>>)
            /\ cluster' = IF ok THEN Applied(service, DeployImage(service))
                          ELSE cluster
            /\ pc' = ErrExit(ok, "svc_wait")
            /\ failure' = IF ok THEN failure ELSE <<"apply", service>>
            /\ UNCHANGED deployIdx
  /\ UNCHANGED <<otherVars, missing_tools, envVars, tmpImage, registry, script, argv, runs, histVars, flagVars,
                 services_to_process, single, pending, built>>

\* rm -f "/tmp/videocopilot-${service}-image.txt"
RemoveImageTag(service) == [tmpImage EXCEPT ![service] = Absent]

\* deploy_service from kubectl rollout status to the end
DeployServiceRollout ==
  /\ pc = "svc_wait"
  /\ LET service == deploy_order[deployIdx] IN
       /\ log' = Append(log, <<"wait", service>>)
       /\ \E ok \in BOOLEAN :
            IF ok
            THEN /\ tmpImage' = RemoveImageTag(service)
                 /\ AfterDeployService
                 /\ UNCHANGED failure
            ELSE /\ pc' = "failed"
                 /\ failure' = <<"rollout", service>>
                 /\ UNCHANGED <<tmpImage, deployIdx>>
  /\ UNCHANGED <<otherVars, missing_tools, envVars, registry, cluster, script, argv, runs, histVars, flagVars,
                 services_to_process, single, pending, built>>

\* kubectl apply -f "$K8S_DIR/06-ingress.yaml"
ApplyIngress ==
  /\ pc = "ingress"
  /\ log' = Append(log, <<"apply", "ingress">>)
  /\ \E ok \in BOOLEAN :
       /\ cluster' = IF ok THEN Applied("ingress", <<"applied">>) ELSE cluster
       /\ pc' = ErrExit(ok, "health")
       /\ failure' = IF ok THEN failure ELSE <<"apply", "ingress">>
  /\ UNCHANGED <<otherVars, missing_tools, envVars, tmpImage, registry, script, argv, runs, histVars, flagVars,
                 services_to_process, single, pending, deployIdx, built>>

\* health_check: the three kubectl get commands end the run when one fails;
\* a failing curl of a deployed service only prints a warning
HealthCheck ==
  /\ pc = "health"
  /\ IF DRY_RUN
     THEN /\ pc' = "done"
          /\ UNCHANGED <<log, failure>>
     ELSE \E getOk \in BOOLEAN :
          \E failing \in SUBSET { s \in ServiceNames : cluster[s] # Absent } :
            IF getOk
            THEN /\ log' = Append(log, <<"probe", failing>>)
                 /\ pc' = "done"
                 /\ UNCHANGED failure
            ELSE /\ pc' = "failed"
                 /\ failure' = <<"health", "kubectl get">>
                 /\ UNCHANGED log
  /\ UNCHANGED <<otherVars, missing_tools, envVars, hostVars, script, argv, runs, histVars, flagVars,
                 services_to_process, single, pending, deployIdx, built>>

\* deploy_monitoring / deploy_jenkins, then exit 0
DeployStack(stack) ==
  /\ pc = stack
  /\ IF DRY_RUN
     THEN /\ pc' = "done"
          /\ UNCHANGED <<cluster, log, failure>>
     ELSE \E outcome \in {"apply-failed", "wait-failed", "ok"} :
            /\ log' = IF outcome = "apply-failed"
                      THEN Append(log, <<"apply", stack>>)
                      ELSE log \o << <<"apply", stack>>, <<"wait", stack>> >>
            /\ cluster' = IF outcome = "apply-failed" THEN cluster
                          ELSE Applied(stack, <<"applied">>)
            /\ pc' = IF outcome = "ok" THEN "done" ELSE "failed"
            /\ failure' = CASE outcome = "apply-failed" -> <<"apply", stack>>
                            [] outcome = "wait-failed" -> <<"rollout", stack>>
                            [] OTHER -> failure
  /\ UNCHANGED <<otherVars, missing_tools, envVars, tmpImage, registry, script, argv, runs, histVars, flagVars,
                 services_to_process, single, pending, deployIdx, built>>

DeployMonitoring == DeployStack("monitoring")

DeployJenkins == DeployStack("jenkins")

\* ------------------------------------------------------------------------
\* deploy_manifests of deploy-k8s.sh and deploy_kubernetes of the
\* infrastructure setup script: the two other loops that apply the manifests
\* ------------------------------------------------------------------------

\* manifests=( "k8s/01-database.yaml" ... "k8s/07-monitoring.yaml" ), by the
\* resource each file defines
DeployManifestsList ==
  <<"database", "embedding-service", "intelligence-service",
    "video-processing-service", "web-app", "ingress", "monitoring">>

\* local manifests=( "00-namespace-secrets.yaml" ... "06-ingress.yaml" )
DeployKubernetesList ==
  <<"namespace-secrets", "database", "embedding-service",
    "intelligence-service", "video-processing-service", "web-app", "ingress">>

\* what kubectl apply -f <manifest> leaves in the cluster
ManifestContent(resource) ==
  IF resource \in ServiceNames THEN ManifestImage(resource) ELSE <<"applied">>

\* the log entry of kubectl apply -f <manifest>
ApplyEntry(resource) ==
  IF resource \in ServiceNames
  THEN <<"apply", resource, ManifestImage(resource)>>
  ELSE <<"apply", resource>>

\* $manifest == *"service.yaml" || $manifest == "05-web-app.yaml"
WaitsAfterApply(resource) == resource \in ServiceNames

\* deploy-k8s.sh deploy | full-setup, when main calls deploy_manifests
DeployManifestsEnter ==
  /\ pc = "idle"
  /\ runs' = runs + 1
  /\ script' = "deploy-k8s.sh"
  /\ argv' = <<"deploy">>
  /\ deployIdx' = 1
  /\ pc' = "dm_loop"
  /\ atStart' = <<registry, cluster>>
  /\ UNCHANGED <<otherVars, missing_tools, envVars, hostVars, lastRun, flagVars, services_to_process, single,
                 pending, built, log, failure>>

\* one turn of the for loop of deploy_manifests
DeployManifestsStep ==
  /\ pc = "dm_loop"
  /\ LET resource == DeployManifestsList[deployIdx]
         last == deployIdx = Len(DeployManifestsList)
     IN \E found, ok \in BOOLEAN :
          IF ~found
          THEN /\ pc' = IF last THEN "dm_status" ELSE "dm_loop"
               /\ deployIdx' = IF last THEN deployIdx ELSE deployIdx + 1
               /\ UNCHANGED <<cluster, log, failure>>
          ELSE /\ log' = Append(log, ApplyEntry(resource))
               /\ cluster' = IF ok THEN Applied(resource, ManifestContent(resource))
                             ELSE cluster
               /\ pc' = IF ~ok THEN "failed"
                        ELSE IF last THEN "dm_status" ELSE "dm_loop"
               /\ deployIdx' = IF ok /\ ~last THEN deployIdx + 1 ELSE deployIdx
               /\ failure' = IF ok THEN failure ELSE <<"apply", resource>>
  /\ UNCHANGED <<otherVars, missing_tools, envVars, tmpImage, registry, script, argv, runs, histVars, flagVars,
                 services_to_process, single, pending, built>>

\* check_deployment_status: three kubectl get commands under set -e
CheckDeploymentStatus ==
  /\ pc = "dm_status"
  /\ \E ok \in BOOLEAN :
       /\ pc' = IF ok THEN "done" ELSE "failed"
       /\ failure' = IF ok THEN failure ELSE <<"status", "kubectl get">>
  /\ UNCHANGED <<otherVars, missing_tools, envVars, hostVars, script, argv, runs, histVars, flagVars,
                 services_to_process, single, pending, deployIdx, built, log>>

\* ------------------------------------------------------------------------
\* The infrastructure setup script
\* ------------------------------------------------------------------------

\* the defaults of the setup script
SetupDefaults ==
  [DRY_RUN |-> FALSE, SKIP_TERRAFORM |-> FALSE, SKIP_ANSIBLE |-> FALSE,
   SKIP_K8S |-> TRUE, SKIP_MONITORING |-> TRUE, SKIP_JENKINS |-> TRUE,
   status |-> "ok"]

\* parse_args of the setup script
RECURSIVE setup_parse_args(_, _)
setup_parse_args(args, st) ==
  IF args = <<>> THEN st
  ELSE LET a == Head(args) IN
    CASE a \in {"-e", "--environment"} ->
           IF Len(args) >= 2 THEN setup_parse_args(Rest(args, 2), st)
           ELSE [st EXCEPT !.status = "error"]
      [] a \in {"-h", "--help"} -> [st EXCEPT !.status = "help"]
      [] a = "--dry-run" ->
           setup_parse_args(Rest(args, 1), [st EXCEPT !.DRY_RUN = TRUE])
      [] a = "--skip-terraform" ->
           setup_parse_args(Rest(args, 1), [st EXCEPT !.SKIP_TERRAFORM = TRUE])
      [] a = "--skip-ansible" ->
           setup_parse_args(Rest(args, 1), [st EXCEPT !.SKIP_ANSIBLE = TRUE])
      [] a = "--skip-k8s" ->
           setup_parse_args(Rest(args, 1), [st EXCEPT !.SKIP_K8S = TRUE])
      [] a = "--skip-monitoring" ->
           setup_parse_args(Rest(args, 1), [st EXCEPT !.SKIP_MONITORING = TRUE])
      [] a = "--skip-jenkins" ->
           setup_parse_args(Rest(args, 1), [st EXCEPT !.SKIP_JENKINS = TRUE])
      [] a = "--include-k8s" ->
           setup_parse_args(Rest(args, 1), [st EXCEPT !.SKIP_K8S = FALSE])
      [] a = "--include-monitoring" ->
           setup_parse_args(Rest(args, 1), [st EXCEPT !.SKIP_MONITORING = FALSE])
      [] a = "--include-jenkins" ->
           setup_parse_args(Rest(args, 1), [st EXCEPT !.SKIP_JENKINS = FALSE])
      [] OTHER -> [st EXCEPT !.status = "error"]

\* command lines given to the setup script
SetupArgVectors ==
  { <<>>,
    <<"--dry-run">>,
    <<"--skip-terraform">>,
    <<"--skip-terraform", "--dry-run">>,
    <<"--skip-terraform", "--skip-ansible", "--include-k8s">>,
    <<"--skip-terraform", "--skip-ansible", "--include-k8s", "--dry-run">>,
    <<"--skip-terraform", "--skip-ansible", "--include-jenkins">>,
    <<"--skip-terraform", "--skip-ansible", "--include-monitoring">>,
    <<"--include-k8s", "--include-jenkins", "--include-monitoring">>,
    <<"-e", "prod">>,
    <<"-e">>,
    <<"--help">>,
    <<"--build-all">>,
    <<"--dry-run", "--force">> }

\* the SKIP_* variables of the run, as parse_args set them from "$@"
SetupFlags == setup_parse_args(argv, SetupDefaults)

\* ./setup.sh "$@"
SetupInvoke ==
  /\ pc = "idle"
  /\ runs' = runs + 1
  /\ script' = "setup"
  /\ \E args \in SetupArgVectors : argv' = args
  /\ pc' = "su_parse"
  /\ atStart' = <<registry, cluster>>
  /\ UNCHANGED <<otherVars, missing_tools, envVars, hostVars, lastRun, flagVars, runVars>>

\* parse_args "$@" of the setup script
SetupParseArgs ==
  /\ pc = "su_parse"
  /\ DRY_RUN' = SetupFlags.DRY_RUN
  /\ pc' = AfterParse(SetupFlags.status, "su_prereq")
  /\ failure' = IF SetupFlags.status = "error" THEN <<"parse_args", "">> ELSE <<>>
  /\ UNCHANGED <<otherVars, missing_tools, envVars, hostVars, script, argv, runs, histVars, BUILD_ALL,
                 SKIP_BUILD, SKIP_DEPLOY, TARGET_SERVICE, services_to_process,
                 single, pending, deployIdx, built, log>>

\* the tools check_prerequisites of the setup script looks for
SetupTools == {"terraform", "ansible", "kubectl", "docker"}

\* check_prerequisites: the four tools, then the terraform.tfvars template
SetupCheckPrerequisites ==
  /\ pc = "su_prereq"
  /\ \E missing \in SUBSET SetupTools : \E tfvars \in BOOLEAN :
       /\ missing_tools' = missing
       /\ IF missing # {}
          THEN /\ pc' = "failed"
               /\ failure' = <<"prereq", "tools">>
               /\ UNCHANGED log
          ELSE /\ pc' = "su_terraform"
               /\ log' = IF ~tfvars /\ ~SetupFlags.SKIP_TERRAFORM
                         THEN Append(log, <<"write", "terraform.tfvars">>)
                         ELSE log
               /\ UNCHANGED failure
  /\ UNCHANGED <<otherVars, envVars, hostVars, script, argv, runs, histVars, flagVars,
                 services_to_process, single, pending, deployIdx, built>>

\* deploy_terraform: init, plan, apply, then create_ansible_inventory
SetupTerraform ==
  /\ pc = "su_terraform"
  /\ IF SetupFlags.SKIP_TERRAFORM \/ DRY_RUN
     THEN /\ pc' = "su_ansible"
          /\ UNCHANGED <<log, failure>>
     ELSE \E ok \in BOOLEAN :
            /\ log' = IF ok
                      THEN log \o << <<"terraform", "apply">>,
                                     <<"write", "inventory.ini">> >>
                      ELSE Append(log, <<"terraform", "apply">>)
            /\ pc' = IF ok THEN "su_ansible" ELSE "failed"
            /\ failure' = IF ok THEN failure ELSE <<"terraform", "">>
  /\ UNCHANGED <<otherVars, missing_tools, envVars, hostVars, script, argv, runs, histVars, flagVars,
                 services_to_process, single, pending, deployIdx, built>>

\* deploy_ansible: the vault test, then ansible-playbook
SetupAnsible ==
  /\ pc = "su_ansible"
  /\ IF SetupFlags.SKIP_ANSIBLE \/ DRY_RUN
     THEN /\ pc' = "su_k8s"
          /\ UNCHANGED <<log, failure>>
     ELSE \E outcome \in {"vault-not-encrypted", "playbook-failed", "ok"} :
            /\ log' = IF outcome = "vault-not-encrypted" THEN log
                      ELSE Append(log, <<"ansible", "playbook.yml">>)
            /\ pc' = IF outcome = "ok" THEN "su_k8s" ELSE "failed"
            /\ failure' = IF outcome = "ok" THEN failure ELSE <<"ansible", outcome>>
  /\ UNCHANGED <<otherVars, missing_tools, envVars, hostVars, script, argv, runs, histVars, flagVars,
                 services_to_process, single, pending, deployIdx, built>>

\* deploy_kubernetes, up to its for loop
DeployKubernetesEnter ==
  /\ pc = "su_k8s"
  /\ LET skip == SetupFlags.SKIP_K8S \/ DRY_RUN IN
       /\ deployIdx' = IF skip THEN 0 ELSE 1
       /\ pc' = IF skip THEN "su_jenkins" ELSE "dk_loop"
  /\ UNCHANGED <<otherVars, missing_tools, envVars, hostVars, script, argv, runs, histVars, flagVars,
                 services_to_process, single, pending, built, log, failure>>

\* one turn of the for loop of deploy_kubernetes
DeployKubernetesStep ==
  /\ pc = "dk_loop"
  /\ LET resource == DeployKubernetesList[deployIdx]
         last == deployIdx = Len(DeployKubernetesList)
     IN \E found, ok \in BOOLEAN :
          IF ~found
          THEN /\ pc' = IF last THEN "dk_status" ELSE "dk_loop"
               /\ deployIdx' = IF last THEN deployIdx ELSE deployIdx + 1
               /\ UNCHANGED <<cluster, log, failure>>
          ELSE /\ log' = IF ok /\ WaitsAfterApply(resource)
                         THEN log \o <<ApplyEntry(resource), <<"wait", resource>> >>
                         ELSE Append(log, ApplyEntry(resource))
               /\ cluster' = IF ok THEN Applied(resource, ManifestContent(resource))
                             ELSE cluster
               /\ pc' = IF ~ok THEN "failed"
                        ELSE IF last THEN "dk_status" ELSE "dk_loop"
               /\ deployIdx' = IF ok /\ ~last THEN deployIdx + 1 ELSE deployIdx
               /\ failure' = IF ok THEN failure ELSE <<"apply", resource>>
  /\ UNCHANGED <<otherVars, missing_tools, envVars, tmpImage, registry, script, argv, runs, histVars, flagVars,
                 services_to_process, single, pending, built>>

\* kubectl get pods / kubectl get services at the end of deploy_kubernetes
DeployKubernetesStatus ==
  /\ pc = "dk_status"
  /\ \E ok \in BOOLEAN :
       /\ pc' = IF ok THEN "su_jenkins" ELSE "failed"
       /\ failure' = IF ok THEN failure ELSE <<"status", "kubectl get">>
  /\ UNCHANGED <<otherVars, missing_tools, envVars, hostVars, script, argv, runs, histVars, flagVars,
                 services_to_process, single, pending, deployIdx, built, log>>

\* deploy_jenkins / deploy_monitoring of the setup script
SetupStack(stack, skipped, next) ==
  /\ pc = "su_" \o stack
  /\ IF skipped \/ DRY_RUN
     THEN /\ pc' = next
          /\ UNCHANGED <<cluster, log, failure>>
     ELSE \E outcome \in {"apply-failed", "wait-failed", "ok"} :
            /\ log' = IF outcome = "apply-failed"
                      THEN Append(log, <<"apply", stack>>)
                      ELSE log \o << <<"apply", stack>>, <<"wait", stack>> >>
            /\ cluster' = IF outcome = "apply-failed" THEN cluster
                          ELSE Applied(stack, <<"applied">>)
            /\ pc' = IF outcome = "ok" THEN next ELSE "failed"
            /\ failure' = CASE outcome = "apply-failed" -> <<"apply", stack>>
                            [] outcome = "wait-failed" -> <<"rollout", stack>>
                            [] OTHER -> failure
  /\ UNCHANGED <<otherVars, missing_tools, envVars, tmpImage, registry, script, argv, runs, histVars, flagVars,
                 services_to_process, single, pending, deployIdx, built>>

SetupJenkins == SetupStack("jenkins", SetupFlags.SKIP_JENKINS, "su_monitoring")

SetupMonitoring == SetupStack("monitoring", SetupFlags.SKIP_MONITORING, "su_validate")

\* validate_deployment and show_summary
SetupValidate ==
  /\ pc = "su_validate"
  /\ \E ok \in BOOLEAN :
       /\ pc' = IF ok \/ DRY_RUN THEN "done" ELSE "failed"
       /\ failure' = IF ok \/ DRY_RUN THEN failure ELSE <<"status", "kubectl get">>
  /\ UNCHANGED <<otherVars, missing_tools, envVars, hostVars, script, argv, runs, histVars, flagVars,
                 services_to_process, single, pending, deployIdx, built, log>>

\* ------------------------------------------------------------------------
\* The Jenkins pipeline (the pipeline { ... } block kept in deploy-k8s.sh)
\* ------------------------------------------------------------------------

\* def manifests = [ 'k8s/02-embedding-service.yaml', ... 'k8s/05-web-app.yaml' ]
\* and the deployments of the stages that follow, by service
PipelineServices ==
  <<"embedding-service", "intelligence-service",
    "video-processing-service", "web-app">>

\* ${REGISTRY}/${IMAGE_NAME}/${service}:${BRANCH_NAME}-${GIT_COMMIT_HASH}
PipelineImage(service) == <<"ghcr.io", service, "main-" \o commit_hash>>

\* the log entries of the first n steps of a stage
StageLog(what, n) ==
  [i \in 1..n |-> IF what = "apply"
                  THEN ApplyEntry(PipelineServices[i])
                  ELSE <<what, PipelineServices[i]>>]

\* a stage whose sh step exits non-zero fails, and the stages after it are
\* skipped
AfterStage(ok, next) == IF ok THEN next ELSE "failed"

\* stage('Checkout')
PipelineCheckout ==
  /\ pc = "idle"
  /\ runs' = runs + 1
  /\ script' = "Jenkinsfile"
  /\ atStart' = <<registry, cluster>>
  /\ pc' = AfterStage(repo # "broken", "jk_tags")
  /\ failure' = IF repo # "broken" THEN failure ELSE <<"checkout", "">>
  /\ UNCHANGED <<otherVars, missing_tools, envVars, hostVars, argv, lastRun, flagVars, services_to_process,
                 single, pending, deployIdx, built, log>>

\* stage('Update Image Tags'): kubectl set image ... || echo, for every
\* deployment
PipelineUpdateImageTags ==
  /\ pc = "jk_tags"
  /\ \E updated \in SUBSET { s \in ServiceNames : cluster[s] # Absent } :
       cluster' = [r \in Resources |->
                     IF r \in updated THEN PipelineImage(r) ELSE cluster[r]]
  /\ pc' = "jk_apply"
  /\ UNCHANGED <<otherVars, missing_tools, envVars, tmpImage, registry, script, argv, runs, histVars, flagVars,
                 runVars>>

\* stage('Deploy/Update Manifests'): the first n kubectl apply succeed
PipelineDeployManifests ==
  /\ pc = "jk_apply"
  /\ \E n \in 0..Len(PipelineServices) :
       LET ok == n = Len(PipelineServices)
           tried == IF ok THEN n ELSE n + 1
       IN /\ log' = log \o StageLog("apply", tried)
          /\ cluster' = [r \in Resources |->
                           IF \E i \in 1..n : PipelineServices[i] = r
                           THEN ManifestContent(r) ELSE cluster[r]]
          /\ pc' = AfterStage(ok, "jk_rollout")
          /\ failure' = IF ok THEN failure ELSE <<"apply", PipelineServices[n + 1]>>
  /\ UNCHANGED <<otherVars, missing_tools, envVars, tmpImage, registry, script, argv, runs, histVars, flagVars,
                 services_to_process, single, pending, deployIdx, built>>

\* stage('Wait for Rollout'): the first n kubectl rollout status succeed
PipelineWaitRollout ==
  /\ pc = "jk_rollout"
  /\ \E n \in 0..Len(PipelineServices) :
       LET ok == n = Len(PipelineServices)
           tried == IF ok THEN n ELSE n + 1
       IN /\ log' = log \o StageLog("wait", tried)
          /\ pc' = AfterStage(ok, "jk_health")
          /\ failure' = IF ok THEN failure ELSE <<"rollout", PipelineServices[n + 1]>>
  /\ UNCHANGED <<otherVars, missing_tools, envVars, hostVars, script, argv, runs, histVars, flagVars,
                 services_to_process, single, pending, deployIdx, built>>

\* stage('Health Checks'): timeout 60 sh -c 'until curl -f ...; do sleep 5;
\* done' for the three back ends and then the web app; the first n answer
\* within the minute
PipelineHealthChecks ==
  /\ pc = "jk_health"
  /\ \E n \in 0..Len(PipelineServices) :
       LET ok == n = Len(PipelineServices)
           tried == IF ok THEN n ELSE n + 1
       IN /\ log' = Append(log, <<"probe",
                                  IF ok THEN {} ELSE {PipelineServices[n + 1]}>>)
          /\ pc' = AfterStage(ok, "jk_verify")
          /\ failure' = IF ok THEN failure ELSE <<"probe", PipelineServices[n + 1]>>
  /\ UNCHANGED <<otherVars, missing_tools, envVars, hostVars, script, argv, runs, histVars, flagVars,
                 services_to_process, single, pending, deployIdx, built>>

\* stage('Verify Deployment') and the post block
PipelineVerify ==
  /\ pc = "jk_verify"
  /\ \E ok \in BOOLEAN :
       /\ pc' = AfterStage(ok, "done")
       /\ failure' = IF ok THEN failure ELSE <<"status", "kubectl get">>
  /\ UNCHANGED <<otherVars, missing_tools, envVars, hostVars, script, argv, runs, histVars, flagVars,
                 services_to_process, single, pending, deployIdx, built, log>>

\* the pipeline runs on a cluster where earlier runs applied the manifests
\* of some of the services
InitPipeline ==
  /\ head \in 1..MaxCommits
  /\ repo \in {"ok", "first", "broken"}
  /\ gitFiles = {}
  /\ tmpImage = [s \in ServiceNames |-> Absent]
  /\ registry = {}
  /\ \E deployed \in SUBSET { PipelineServices[i] : i \in DOMAIN PipelineServices } :
       cluster = [r \in Resources |->
                    IF r \in deployed THEN ManifestContent(r) ELSE Absent]
  /\ runs = 0
  /\ lastRun = <<>>
  /\ atStart = <<registry, cluster>>
  /\ IdleRun
  /\ IdleOther

NextPipeline ==
  \/ PipelineCheckout
  \/ PipelineUpdateImageTags
  \/ PipelineDeployManifests
  \/ PipelineWaitRollout
  \/ PipelineHealthChecks
  \/ PipelineVerify

SpecPipeline == InitPipeline /\ [][NextPipeline]_vars

\* ------------------------------------------------------------------------
\* deploy.sh: terraform, the connectivity retry loop, the Ansible playbook
\* ------------------------------------------------------------------------

\* max_attempts=5
max_attempts == 5

\* ./deploy.sh
DeployShStart ==
  /\ pc = "idle"
  /\ runs' = runs + 1
  /\ script' = "deploy.sh"
  /\ pc' = "ds_prereq"
  /\ atStart' = <<registry, cluster>>
  /\ UNCHANGED <<otherVars, missing_tools, envVars, hostVars, argv, lastRun, flagVars,
                 runVars>>

\* command -v terraform || exit 1; command -v ansible || exit 1; the test
\* of ~/.ssh/devops.pem
DeployShPrerequisites ==
  /\ pc = "ds_prereq"
  /\ \E missing \in SUBSET {"terraform", "ansible"} : \E key \in BOOLEAN :
       /\ missing_tools' = missing
       /\ pc' = IF ~key THEN AfterPrerequisites(missing, {"terraform", "ansible"}, "failed")
                ELSE AfterPrerequisites(missing, {"terraform", "ansible"}, "ds_terraform")
       /\ failure' = CASE "terraform" \in missing -> <<"prereq", "terraform">>
                       [] "ansible" \in missing -> <<"prereq", "ansible">>
                       [] ~key -> <<"prereq", "devops.pem">>
                       [] OTHER -> failure
  /\ UNCHANGED <<otherVars, envVars, hostVars, script, argv, runs, histVars, flagVars,
                 services_to_process, single, pending, deployIdx, built, log>>

\* terraform init / plan, the prompt, terraform apply -auto-approve,
\* terraform output
DeployShTerraform ==
  /\ pc = "ds_terraform"
  /\ \E outcome \in {"init-failed", "plan-failed", "cancelled", "apply-failed",
                     "output-failed", "ok"} :
       /\ log' = IF outcome \in {"apply-failed", "output-failed", "ok"}
                 THEN Append(log, <<"terraform", "apply">>)
                 ELSE log
       /\ pc' = IF outcome = "ok" THEN "ds_inventory" ELSE "failed"
       /\ failure' = IF outcome = "ok" THEN failure ELSE <<"terraform", outcome>>
  /\ UNCHANGED <<otherVars, missing_tools, envVars, hostVars, script, argv, runs, histVars,
                 flagVars, services_to_process, single, pending, deployIdx, built>>

\* sleep 60; cp inventory.yml inventory.yml.backup; sed ... > inventory.yml;
\* max_attempts=5; attempt=1
DeployShInventory ==
  /\ pc = "ds_inventory"
  /\ \E ok \in BOOLEAN :
       /\ log' = IF ok THEN Append(log, <<"write", "inventory.yml">>) ELSE log
       /\ attempt' = IF ok THEN 1 ELSE attempt
       /\ pc' = IF ok THEN "ds_ping" ELSE "failed"
       /\ failure' = IF ok THEN failure ELSE <<"inventory", "">>
  /\ UNCHANGED <<other, apiVars, webVars, secretVars, missing_tools, envVars, hostVars, script, argv, runs,
                 histVars, flagVars, services_to_process, single, pending,
                 deployIdx, built>>

\* the loop test written with -le $((max_attempts + 1))
LoopTest_oneMore(n) == n <= max_attempts + 1

\* while [ $attempt -le $max_attempts ]
LoopTest(n) == n <= max_attempts

\* one evaluation of the while test and, if it holds, one turn of the loop:
\* ansible all -m ping, then break, or sleep 30 and attempt=$((attempt + 1))
DeployShPing ==
  /\ pc = "ds_ping"
  /\ IF LoopTest(attempt)
     THEN \E ok \in BOOLEAN :
            /\ log' = Append(log, <<"ping", IF ok THEN "ok" ELSE "unreachable">>)
            /\ attempt' = IF ok THEN attempt ELSE attempt + 1
            /\ pc' = IF ok THEN "ds_check" ELSE "ds_ping"
     ELSE /\ pc' = "ds_check"
          /\ UNCHANGED <<log, attempt>>
  /\ UNCHANGED <<other, apiVars, webVars, secretVars, missing_tools, envVars, hostVars, script, argv, runs,
                 histVars, flagVars, services_to_process, single, pending,
                 deployIdx, built, failure>>

\* if [ $attempt -gt $max_attempts ]; then exit 1
DeployShCheck ==
  /\ pc = "ds_check"
  /\ pc' = IF attempt > max_attempts THEN "failed" ELSE "ds_playbook"
  /\ failure' = IF attempt > max_attempts THEN <<"connectivity", "">> ELSE failure
  /\ UNCHANGED <<otherVars, missing_tools, envVars, hostVars, script, argv, runs, histVars,
                 flagVars, services_to_process, single, pending, deployIdx, built,
                 log>>

\* ansible-playbook playbooks/main.yml
DeployShPlaybook ==
  /\ pc = "ds_playbook"
  /\ log' = Append(log, <<"ansible", "playbooks/main.yml">>)
  /\ \E ok \in BOOLEAN :
       /\ pc' = IF ok THEN "done" ELSE "failed"
       /\ failure' = IF ok THEN failure ELSE <<"ansible", "playbook-failed">>
  /\ UNCHANGED <<otherVars, missing_tools, envVars, hostVars, script, argv, runs, histVars,
                 flagVars, services_to_process, single, pending, deployIdx, built>>

\* ------------------------------------------------------------------------
\* Specification of one run
\* ------------------------------------------------------------------------

Start == \E args \in ArgVectors : Invoke(args)

Build == \E service \in ServiceNames : BuildService(service)

Next ==
  \/ Start
  \/ ParseArgs
  \/ CheckPrerequisites
  \/ Dispatch
  \/ DetectChanges
  \/ Select
  \/ Build
  \/ ApplyNamespace
  \/ ApplyDatabase
  \/ WaitDatabase
  \/ DeployServiceApply
  \/ DeployServiceRollout
  \/ ApplyIngress
  \/ HealthCheck
  \/ DeployMonitoring
  \/ DeployJenkins
  \/ DeployManifestsEnter
  \/ DeployManifestsStep
  \/ CheckDeploymentStatus
  \/ SetupInvoke
  \/ SetupParseArgs
  \/ SetupCheckPrerequisites
  \/ SetupTerraform
  \/ SetupAnsible
  \/ DeployKubernetesEnter
  \/ DeployKubernetesStep
  \/ DeployKubernetesStatus
  \/ SetupJenkins
  \/ SetupMonitoring
  \/ SetupValidate
  \/ PipelineCheckout
  \/ PipelineUpdateImageTags
  \/ PipelineDeployManifests
  \/ PipelineWaitRollout
  \/ PipelineHealthChecks
  \/ PipelineVerify
  \/ DeployShStart
  \/ DeployShPrerequisites
  \/ DeployShTerraform
  \/ DeployShInventory
  \/ DeployShPing
  \/ DeployShCheck
  \/ DeployShPlaybook

Spec == Init /\ [][Next]_vars

\* ------------------------------------------------------------------------
\* Specification of successive runs on one host, with commits in between
\* ------------------------------------------------------------------------

\* the paths and command lines of the runs that follow one another
RerunPathSets ==
  { {},
    { <<"web-app", "/", "app/page.tsx">> },
    { <<"web-app", "/", "app/page.tsx">>, <<"embedding-service", "/", "main.py">> } }

RerunArgVectors ==
  { <<>>,
    <<"--skip-build">>,
    <<"--skip-deploy">>,
    <<"--dry-run">>,
    <<"-s", "web-app">>,
    <<"-s", "web-app", "--skip-build">>,
    <<"-s", "web-app", "--skip-deploy">> }

InitReruns == InitWith(RerunPathSets)

StartRerun == \E args \in RerunArgVectors : Invoke(args)

\* the script has exited and is invoked once more: a new shell, with the
\* defaults of lines 24-30
Reinvoke ==
  /\ pc \in {"done", "failed"}
  /\ runs < MaxRuns
  /\ pc' = "idle"
  /\ script' = ""
  /\ argv' = <<>>
  /\ DRY_RUN' = FALSE /\ BUILD_ALL' = FALSE /\ SKIP_BUILD' = FALSE
  /\ SKIP_DEPLOY' = FALSE /\ TARGET_SERVICE' = ""
  /\ services_to_process' = {}
  /\ single' = FALSE
  /\ pending' = {}
  /\ deployIdx' = 0
  /\ built' = {}
  /\ log' = <<>>
  /\ failure' = <<>>
  /\ lastRun' = IF pc = "done" THEN <<script, argv, commit_hash>> ELSE <<>>
  /\ atStart' = <<registry, cluster>>
  /\ missing_tools' = {}
  /\ UNCHANGED <<otherVars, envVars, hostVars, runs>>

\* git commit between two runs
Commit ==
  /\ pc = "idle"
  /\ head < MaxCommits
  /\ repo # "broken"
  /\ head' = head + 1
  /\ repo' = "ok"
  /\ gitFiles' \in RerunPathSets
  /\ UNCHANGED <<otherVars, missing_tools, hostVars, pc, script, argv, flagVars, runVars,
                 runs, histVars>>

NextReruns ==
  \/ StartRerun
  \/ ParseArgs
  \/ CheckPrerequisites
  \/ Dispatch
  \/ DetectChanges
  \/ Select
  \/ Build
  \/ ApplyNamespace
  \/ ApplyDatabase
  \/ WaitDatabase
  \/ DeployServiceApply
  \/ DeployServiceRollout
  \/ ApplyIngress
  \/ HealthCheck
  \/ Reinvoke
  \/ Commit

SpecReruns == InitReruns /\ [][NextReruns]_vars

\* ------------------------------------------------------------------------
\* Specification of two invocations of k8s-deploy.sh at the same time, on
\* one host and against one cluster.  The first is the run above; the
\* second is given -s SERVICE --skip-build and is followed through the
\* branch of main that serves it.
\* ------------------------------------------------------------------------

ConcurrentPathSets == { {}, { <<"web-app", "/", "app/page.tsx">> } }

ConcurrentArgVectors ==
  { <<>>, <<"--skip-build">>, <<"-s", "web-app">>, <<"-s", "web-app", "--skip-build">> }

InitConcurrent == InitWith(ConcurrentPathSets)

StartConcurrent == \E args \in ConcurrentArgVectors : Invoke(args)

\* an entry of main that tests a lock file: no start while another
\* invocation is under way
CanInvoke_lockFile(position) == position \in {"idle", "done", "failed"}

\* the entry of main tests nothing about another invocation: no lock file,
\* no flock, no lease in the cluster
CanInvoke(position) == TRUE

sharedUnchanged ==
  <<attempt, apiVars, webVars, secretVars, missing_tools, envVars, registry, pc, script, argv, runs,
    histVars, flagVars, runVars>>

\* ./k8s-deploy.sh -s SERVICE --skip-build, up to the call of deploy_service:
\* parse_args, the test for kubectl, the elif that serves a known service
OtherInvoke(service) ==
  /\ other = <<>>
  /\ CanInvoke(pc)
  /\ \E kubectl \in BOOLEAN :
       other' = [pc |-> AfterPrerequisites(IF kubectl THEN {} ELSE {"kubectl"},
                                           RequiredTools(TRUE), "svc_apply"),
                 service |-> service,
                 log |-> <<>>]
  /\ UNCHANGED <<sharedUnchanged, cluster, tmpImage>>

\* deploy_service of the second invocation, up to and including kubectl
\* apply; the entry records how many commands the first had issued by then
OtherDeployServiceApply ==
  /\ other # <<>>
  /\ other.pc = "svc_apply"
  /\ \E manifestFound, ok \in BOOLEAN :
       IF ~manifestFound
       THEN /\ other' = [other EXCEPT !.pc = "failed"]
            /\ UNCHANGED cluster
       ELSE /\ other' = [other EXCEPT
                           !.pc = ErrExit(ok, "svc_wait"),
                           !.log = Append(@, <<"apply", other.service,
                                               DeployImage(other.service), Len(log)>>)]
            /\ cluster' = IF ok THEN Applied(other.service, DeployImage(other.service))
                          ELSE cluster
  /\ UNCHANGED <<sharedUnchanged, tmpImage>>

\* deploy_service of the second invocation from kubectl rollout status on
OtherDeployServiceRollout ==
  /\ other # <<>>
  /\ other.pc = "svc_wait"
  /\ \E ok \in BOOLEAN :
       /\ other' = [other EXCEPT !.pc = ErrExit(ok, "health"),
                                 !.log = Append(@, <<"wait", other.service>>)]
       /\ tmpImage' = IF ok THEN RemoveImageTag(other.service) ELSE tmpImage
  /\ UNCHANGED <<sharedUnchanged, cluster>>

\* health_check of the second invocation
OtherHealthCheck ==
  /\ other # <<>>
  /\ other.pc = "health"
  /\ \E getOk \in BOOLEAN :
       other' = [other EXCEPT !.pc = ErrExit(getOk, "done")]
  /\ UNCHANGED <<sharedUnchanged, cluster, tmpImage>>

OtherStart == \E service \in ServiceNames : OtherInvoke(service)

NextConcurrent ==
  \/ StartConcurrent
  \/ ParseArgs
  \/ CheckPrerequisites
  \/ Dispatch
  \/ DetectChanges
  \/ Select
  \/ Build
  \/ ApplyNamespace
  \/ ApplyDatabase
  \/ WaitDatabase
  \/ DeployServiceApply
  \/ DeployServiceRollout
  \/ ApplyIngress
  \/ HealthCheck
  \/ OtherStart
  \/ OtherDeployServiceApply
  \/ OtherDeployServiceRollout
  \/ OtherHealthCheck

SpecConcurrent == InitConcurrent /\ [][NextConcurrent]_vars

\* ------------------------------------------------------------------------
\* The web application: the DELETE handlers of a project and of a video,
\* over the tables of migration.sql
\* ------------------------------------------------------------------------

UserIds == {"u1", "u2"}

ProjectIds == {"p1", "p2"}

\* the ids prisma gives new rows (cuid()), in the order they are handed out
VideoIdOrder == <<"v1", "v2">>

TranscriptIdOrder == <<"t1", "t2">>

VideoIds == { VideoIdOrder[i] : i \in DOMAIN VideoIdOrder }

TranscriptIds == { TranscriptIdOrder[i] : i \in DOMAIN TranscriptIdOrder }

\* video.s3Key and transcript.srtUrl: the object of a row is named by the
\* row's id
ObjectKeys(rows) == { r.id : r \in rows }

\* the ids in use are the first ones of the order
Canonical(order, used) ==
  \A i \in DOMAIN order : order[i] \in used =>
    \A j \in 1..(i - 1) : order[j] \in used

\* the id of the next row: the first one of the order not in use
NextId(order, used) ==
  order[CHOOSE i \in DOMAIN order :
          order[i] \notin used /\ \A j \in 1..(i - 1) : order[j] \in used]

\* the project rows a database can start with: p1 of u1, p2 of u2
ProjectRows ==
  { [id |-> "p1", ownerId |-> "u1", name |-> "a"],
    [id |-> "p2", ownerId |-> "u2", name |-> "a"] }

\* the rows of one project
VideosOf(projectId) == { v \in Video : v.projectId = projectId }

TranscriptsOf(videoId) == { t \in Transcript : t.videoId = videoId }

TranscriptsOfProject(projectId) ==
  { t \in Transcript : \E v \in VideosOf(projectId) : t.videoId = v.id }

EmbeddingsOf(projectId) == { e \in Embedding : e.projectId = projectId }

\* the foreign keys, all ON DELETE RESTRICT
ForeignKeysHold ==
  /\ \A v \in Video : \E pr \in Project : pr.id = v.projectId
  /\ \A t \in Transcript : \E v \in Video : v.id = t.videoId
  /\ \A e \in Embedding : \E pr \in Project : pr.id = e.projectId

\* the databases a behaviour can start from
InitDatabase ==
  /\ Project \in SUBSET ProjectRows
  /\ Video \in SUBSET [id : VideoIds, projectId : ProjectIds]
  /\ Transcript \in SUBSET [id : TranscriptIds, videoId : VideoIds]
  /\ Embedding \in SUBSET [projectId : ProjectIds]
  /\ Canonical(VideoIdOrder, ObjectKeys(Video))
  /\ Canonical(TranscriptIdOrder, ObjectKeys(Transcript))
  /\ \A v, w \in Video : v.id = w.id => v = w
  /\ \A t, u \in Transcript : t.id = u.id => t = u
  /\ ForeignKeysHold

\* the delete statements of the project handler with the videos first
ProjectDeleteOrder_videosFirst == <<"Video", "Transcript", "Embedding", "Project">>

\* the four delete statements of the project handler, in the order of the
\* awaits
ProjectDeleteOrder == <<"Transcript", "Video", "Embedding", "Project">>

\* a delete statement the database refuses: a row to delete is still
\* referenced (RESTRICT), or prisma's delete finds no row
Refused(table, projectId) ==
  CASE table = "Video" -> TranscriptsOfProject(projectId) # {}
    [] table = "Project" ->
         \/ VideosOf(projectId) # {}
         \/ EmbeddingsOf(projectId) # {}
         \/ ~\E pr \in Project : pr.id = projectId
    [] OTHER -> FALSE

\* the tables after a delete statement of the project handler
AfterDelete(table, projectId) ==
  [Project |-> IF table = "Project"
               THEN { pr \in Project : pr.id # projectId } ELSE Project,
   Video |-> IF table = "Video" THEN Video \ VideosOf(projectId) ELSE Video,
   Transcript |-> IF table = "Transcript"
                  THEN Transcript \ TranscriptsOfProject(projectId) ELSE Transcript,
   Embedding |-> IF table = "Embedding"
                 THEN Embedding \ EmbeddingsOf(projectId) ELSE Embedding]

apiUnchanged == <<scriptVars, secretVars, attempt, other, webVars>>

\* what a project consists of when a request arrives: its rows and the
\* objects and vectors stored for them; read by the properties only
Snapshot(projectId) ==
  [project |-> { pr \in Project : pr.id = projectId },
   videos |-> VideosOf(projectId),
   transcripts |-> TranscriptsOfProject(projectId),
   embeddings |-> EmbeddingsOf(projectId),
   objects |-> S3 \cap ObjectKeys(VideosOf(projectId)
                                  \cup TranscriptsOfProject(projectId))]

\* a request reaches a handler; userId "" is a request without a valid token
Receive(op, userId, projectId, videoId) ==
  /\ request = <<>>
  /\ dbLog = <<>>
  /\ request' = [op |-> op, userId |-> userId, projectId |-> projectId,
                 videoId |-> videoId, step |-> "find", stmt |-> 1,
                 status |-> 0, error |-> "", found |-> {}, deleted |-> <<>>,
                 s3Failed |-> {}, pineconeFailed |-> FALSE,
                 before |-> Snapshot(projectId)]
  /\ dbLog' = Append(dbLog, op)
  /\ UNCHANGED <<apiUnchanged, storeVars, Project, Video, Transcript, Embedding>>

ReceiveDeleteProject ==
  \E u \in UserIds \cup {""} : \E pr \in ProjectIds :
    Receive("DELETE project", u, pr, "")

ReceiveDeleteVideo ==
  \E u \in UserIds \cup {""} : \E pr \in ProjectIds : \E v \in VideoIds :
    Receive("DELETE video", u, pr, v)

\* the response of a handler; error is what the catch block logged
Respond(status, error) ==
  [request EXCEPT !.step = "done", !.status = status, !.error = error]

\* DELETE /api/projects/{id}: verifyTokenFromCookies and findFirst
DeleteProjectFind ==
  /\ request # <<>>
  /\ request.op = "DELETE project" /\ request.step = "find"
  /\ \E dbOk \in BOOLEAN :
       request' =
         IF request.userId = "" THEN Respond(401, "")
         ELSE IF ~dbOk THEN Respond(500, "unavailable")
         ELSE IF ~\E pr \in Project :
                    pr.id = request.projectId /\ pr.ownerId = request.userId
         THEN Respond(404, "")
         ELSE [request EXCEPT
                 !.step = "cleanup",
                 !.found = VideosOf(request.projectId)
                             \cup TranscriptsOfProject(request.projectId)]
  /\ UNCHANGED <<apiUnchanged, storeVars, Project, Video, Transcript, Embedding, dbLog>>

\* a cleanup whose failure ends the request
AfterCleanup_failFast(failed, pineconeOk) ==
  IF failed # {} \/ ~pineconeOk
  THEN [request EXCEPT !.step = "done", !.status = 500, !.error = "cleanup",
                       !.s3Failed = failed, !.pineconeFailed = ~pineconeOk]
  ELSE [request EXCEPT !.step = "delete"]

\* the request after the cleanup: every catch block only logs
AfterCleanup(failed, pineconeOk) ==
  [request EXCEPT !.step = "delete",
                  !.s3Failed = failed,
                  !.pineconeFailed = ~pineconeOk]

\* the S3 deletes under Promise.allSettled, each in its own try, and the
\* Pinecone deleteAll in its own try: a failure is logged and nothing else
DeleteProjectCleanup ==
  /\ request # <<>>
  /\ request.op = "DELETE project" /\ request.step = "cleanup"
  /\ \E failed \in SUBSET ObjectKeys(request.found) : \E pineconeOk \in BOOLEAN :
       /\ S3' = S3 \ (ObjectKeys(request.found) \ failed)
       /\ Pinecone' = IF pineconeOk THEN Pinecone \ {request.projectId}
                      ELSE Pinecone
       /\ request' = AfterCleanup(failed, pineconeOk)
  /\ UNCHANGED <<apiUnchanged, Project, Video, Transcript, Embedding, dbLog>>

\* one of the four awaited delete statements
DeleteProjectStatement ==
  /\ request # <<>>
  /\ request.op = "DELETE project" /\ request.step = "delete"
  /\ LET table == ProjectDeleteOrder[request.stmt]
         after == AfterDelete(table, request.projectId)
         last == request.stmt = Len(ProjectDeleteOrder)
     IN \E dbOk \in BOOLEAN :
          IF ~dbOk \/ Refused(table, request.projectId)
          THEN /\ request' = Respond(500, IF dbOk THEN "refused" ELSE "unavailable")
               /\ UNCHANGED <<Project, Video, Transcript, Embedding>>
          ELSE /\ Project' = after.Project
               /\ Video' = after.Video
               /\ Transcript' = after.Transcript
               /\ Embedding' = after.Embedding
               /\ request' = [request EXCEPT
                                !.deleted = Append(@, table),
                                !.step = IF last THEN "done" ELSE "delete",
                                !.stmt = IF last THEN @ ELSE @ + 1,
                                !.status = IF last THEN 200 ELSE 0]
  /\ UNCHANGED <<apiUnchanged, storeVars, dbLog>>

\* DELETE /api/projects/{p}/videos/{v}: verifyTokenFromCookies and findFirst
DeleteVideoFind ==
  /\ request # <<>>
  /\ request.op = "DELETE video" /\ request.step = "find"
  /\ \E dbOk \in BOOLEAN :
       request' =
         IF request.userId = "" THEN Respond(401, "")
         ELSE IF ~dbOk THEN Respond(500, "unavailable")
         ELSE IF ~\E v \in Video : \E pr \in Project :
                    /\ v.id = request.videoId /\ v.projectId = request.projectId
                    /\ pr.id = v.projectId /\ pr.ownerId = request.userId
         THEN Respond(404, "")
         ELSE [request EXCEPT
                 !.step = "cleanup",
                 !.found = { v \in Video : v.id = request.videoId }
                             \cup TranscriptsOf(request.videoId)]
  /\ UNCHANGED <<apiUnchanged, storeVars, Project, Video, Transcript, Embedding, dbLog>>

\* the S3 deletes of the video handler, each in its own try
DeleteVideoCleanup ==
  /\ request # <<>>
  /\ request.op = "DELETE video" /\ request.step = "cleanup"
  /\ \E s3Ok \in BOOLEAN :
       /\ S3' = IF s3Ok THEN S3 \ {request.videoId} ELSE S3
       /\ request' = [request EXCEPT
                        !.step = "delete",
                        !.s3Failed = IF s3Ok THEN {} ELSE {request.videoId}]
  /\ UNCHANGED <<apiUnchanged, Pinecone, Project, Video, Transcript, Embedding, dbLog>>

\* await prisma.video.delete({ where: { id: videoId } })
DeleteVideoRow ==
  /\ request # <<>>
  /\ request.op = "DELETE video" /\ request.step = "delete"
  /\ \E dbOk \in BOOLEAN :
       IF \/ ~dbOk
          \/ TranscriptsOf(request.videoId) # {}
          \/ ~\E v \in Video : v.id = request.videoId
       THEN /\ request' = Respond(500, IF dbOk THEN "refused" ELSE "unavailable")
            /\ UNCHANGED Video
       ELSE /\ Video' = { v \in Video : v.id # request.videoId }
            /\ request' = [Respond(200, "") EXCEPT !.deleted = Append(@, "Video")]
  /\ UNCHANGED <<apiUnchanged, storeVars, Project, Transcript, Embedding, dbLog>>

\* a handler is between its first await and its response
Serving == request # <<>> /\ request.step # "done"

\* POST /api/projects/{id}/videos while another request is served, for the
\* project of that request:
\* prisma.video.create, which the foreign key refuses for a missing project;
\* s3Key names the object the client uploaded before
CreateVideo ==
  /\ Serving
  /\ VideoIds \ ObjectKeys(Video) # {}
  /\ \E id \in {NextId(VideoIdOrder, ObjectKeys(Video))} : \E pr \in Project :
       /\ pr.id = request.projectId
       /\ Video' = Video \cup {[id |-> id, projectId |-> pr.id]}
       /\ S3' = S3 \cup {id}
  /\ UNCHANGED <<apiUnchanged, Pinecone, Project, Transcript, Embedding, request, dbLog>>

\* the transcription process records a transcript of a video
CreateTranscript ==
  /\ Serving
  /\ TranscriptIds \ ObjectKeys(Transcript) # {}
  /\ \E id \in {NextId(TranscriptIdOrder, ObjectKeys(Transcript))} : \E v \in Video :
       /\ v.projectId = request.projectId
       /\ Transcript' = Transcript \cup {[id |-> id, videoId |-> v.id]}
       /\ S3' = S3 \cup {id}
  /\ UNCHANGED <<apiUnchanged, Pinecone, Project, Video, Embedding, request, dbLog>>

\* the embedding process records that a project was vectorised
CreateEmbedding ==
  /\ Serving
  /\ \E pr \in Project :
       /\ pr.id = request.projectId
       /\ EmbeddingsOf(pr.id) = {}
       /\ Embedding' = Embedding \cup {[projectId |-> pr.id]}
       /\ Pinecone' = Pinecone \cup {pr.id}
  /\ UNCHANGED <<apiUnchanged, S3, Project, Video, Transcript, request, dbLog>>

\* no script runs on the host
IdleScripts ==
  /\ head = 1 /\ repo = "ok" /\ gitFiles = {}
  /\ tmpImage = [s \in ServiceNames |-> Absent]
  /\ registry = {}
  /\ cluster = [r \in Resources |-> Absent]
  /\ runs = 0
  /\ lastRun = <<>>
  /\ atStart = <<registry, cluster>>
  /\ IdleRun
  /\ other = <<>>
  /\ IdleSecrets

InitApi ==
  /\ IdleScripts
  /\ IdleWeb
  /\ request = <<>>
  /\ dbLog = <<>>
  /\ InitDatabase
  /\ S3 = ObjectKeys(Video \cup Transcript)
  /\ Pinecone = { e.projectId : e \in Embedding }

NextApi ==
  \/ ReceiveDeleteProject
  \/ ReceiveDeleteVideo
  \/ DeleteProjectFind
  \/ DeleteProjectCleanup
  \/ DeleteProjectStatement
  \/ DeleteVideoFind
  \/ DeleteVideoCleanup
  \/ DeleteVideoRow
  \/ CreateVideo
  \/ CreateTranscript
  \/ CreateEmbedding

SpecApi == InitApi /\ [][NextApi]_vars

\* ------------------------------------------------------------------------
\* The web application: the handlers that answer after one query, each an
\* atomic step: GET and PUT of a project, POST of a video, process-video,
\* signed-url and transcript-content
\* ------------------------------------------------------------------------

\* video.s3Key, as the path segments of the key
S3Key(video) == <<"videos", video.id>>

\* the keys a request can name: the keys of the videos and one upload of
\* each user
Keys ==
  { <<"videos", id>> : id \in VideoIds } \cup { <<"uploads", u, "f">> : u \in UserIds }

\* prisma.project.findFirst({ where: { id, ownerId } })
FindProject(projectId, userId) ==
  { pr \in Project : pr.id = projectId /\ pr.ownerId = userId }

\* prisma.video.findFirst({ where: { id, project: { ownerId } } })
FindVideo(videoId, userId) ==
  { v \in Video : v.id = videoId /\ FindProject(v.projectId, userId) # {} }

\* an answer; read: the projects whose rows it carries, changed: the
\* projects the handler wrote to, forwarded: what it sent to the processing
\* service, signedKey: the key it signed a URL for
Answer(op, userId, projectId, videoId, key, status) ==
  [op |-> op, userId |-> userId, projectId |-> projectId, videoId |-> videoId,
   key |-> key, status |-> status, read |-> {}, changed |-> {},
   forwarded |-> <<>>, signedKey |-> <<>>]

accessUnchanged ==
  <<scriptVars, secretVars, attempt, other, User, signup, Transcript, Embedding, request,
    dbLog, storeVars, pageVars, chatVars>>

\* GET /api/projects/{id}
GetProject ==
  \E u \in UserIds \cup {""} : \E p \in ProjectIds : \E dbOk \in BOOLEAN :
    LET a(status) == Answer("GET project", u, p, "", <<>>, status)
    IN /\ served' =
            IF u = "" THEN a(401)
            ELSE IF ~dbOk THEN a(500)
            ELSE IF FindProject(p, u) = {} THEN a(404)
            ELSE [a(200) EXCEPT !.read = {p}]
       /\ UNCHANGED <<accessUnchanged, Project, Video>>

\* PUT /api/projects/{id}; name is the new name, "" if the body has none
PutProject ==
  \E u \in UserIds \cup {""} : \E p \in ProjectIds :
  \E name \in {"", "b"} : \E dbOk \in BOOLEAN :
    LET a(status) == Answer("PUT project", u, p, "", <<>>, status)
        ok == u # "" /\ dbOk /\ FindProject(p, u) # {}
    IN /\ served' =
            IF u = "" THEN a(401)
            ELSE IF ~dbOk THEN a(500)
            ELSE IF FindProject(p, u) = {} THEN a(404)
            ELSE [a(200) EXCEPT !.read = {p}, !.changed = {p}]
       /\ Project' =
            IF ok /\ name # ""
            THEN { IF pr.id = p THEN [pr EXCEPT !.name = name] ELSE pr :
                   pr \in Project }
            ELSE Project
       /\ UNCHANGED <<accessUnchanged, Video>>

\* POST /api/projects/{id}/videos; hasKey: the body names an s3Key
AddVideo ==
  \E u \in UserIds \cup {""} : \E p \in ProjectIds :
  \E hasKey \in BOOLEAN : \E dbOk \in BOOLEAN :
    LET a(status) == Answer("POST video", u, p, "", <<>>, status)
        ok == /\ u # "" /\ hasKey /\ dbOk /\ FindProject(p, u) # {}
              /\ VideoIds \ ObjectKeys(Video) # {}
    IN /\ served' =
            IF u = "" THEN a(401)
            ELSE IF ~hasKey THEN a(400)
            ELSE IF ~dbOk THEN a(500)
            ELSE IF FindProject(p, u) = {} THEN a(404)
            ELSE IF VideoIds \ ObjectKeys(Video) = {} THEN a(500)
            ELSE [a(200) EXCEPT !.changed = {p}]
       /\ Video' =
            IF ok
            THEN Video \cup {[id |-> NextId(VideoIdOrder, ObjectKeys(Video)),
                              projectId |-> p]}
            ELSE Video
       /\ UNCHANGED <<accessUnchanged, Project>>

\* POST /api/process-video; valid: every field is there and every language
\* is supported; up: the processing service accepts the connection
ProcessVideo ==
  \E u \in UserIds \cup {""} : \E p \in ProjectIds : \E v \in VideoIds :
  \E valid \in BOOLEAN : \E up \in BOOLEAN :
    LET a(status) == Answer("POST process-video", u, p, v, <<>>, status)
    IN /\ served' =
            IF u = "" THEN a(401)
            ELSE IF ~valid THEN a(400)
            ELSE IF ~up THEN a(503)
            ELSE [a(200) EXCEPT !.forwarded = <<p, v>>]
       /\ UNCHANGED <<accessUnchanged, Project, Video>>

\* POST /api/signed-url; videoId is "" if the body has none
SignedUrl ==
  \E u \in UserIds \cup {""} : \E key \in Keys \cup {<<>>} :
  \E videoId \in VideoIds \cup {""} : \E dbOk \in BOOLEAN :
    LET a(status) == Answer("POST signed-url", u, "", videoId, key, status)
    IN /\ served' =
            IF u = "" THEN a(401)
            ELSE IF key = <<>> THEN a(400)
            ELSE IF videoId # "" /\ ~dbOk THEN a(500)
            ELSE IF videoId # "" /\ FindVideo(videoId, u) = {} THEN a(404)
            ELSE IF videoId = "" /\ ~StartsWith(key, <<"uploads", u>>) THEN a(403)
            ELSE [a(200) EXCEPT !.signedKey = key]
       /\ UNCHANGED <<accessUnchanged, Project, Video>>

\* POST /api/transcript-content; txtUrl is the key of the body, <<>> if the
\* body has none
TranscriptContent ==
  \E u \in UserIds \cup {""} : \E txtUrl \in Keys \cup {<<>>} :
  \E videoId \in VideoIds \cup {""} : \E dbOk \in BOOLEAN :
    LET a(status) == Answer("POST transcript-content", u, "", videoId, txtUrl, status)
    IN /\ served' =
            IF txtUrl = <<>> \/ videoId = "" THEN a(400)
            ELSE IF u = "" THEN a(401)
            ELSE IF ~dbOk THEN a(500)
            ELSE IF FindVideo(videoId, u) = {} THEN a(404)
            ELSE [a(200) EXCEPT !.signedKey = txtUrl]
       /\ UNCHANGED <<accessUnchanged, Project, Video>>

InitAccess ==
  /\ IdleScripts
  /\ User = {} /\ signup = <<>> /\ served = <<>>
  /\ IdlePage
  /\ IdleChat
  /\ request = <<>>
  /\ dbLog = <<>>
  /\ InitDatabase
  /\ Transcript = {} /\ Embedding = {}
  /\ S3 = ObjectKeys(Video)
  /\ Pinecone = {}

NextAccess ==
  \/ GetProject
  \/ PutProject
  \/ AddVideo
  \/ ProcessVideo
  \/ SignedUrl
  \/ TranscriptContent

SpecAccess == InitAccess /\ [][NextAccess]_vars

\* ------------------------------------------------------------------------
\* The web application: POST /api/auth/signup, served by concurrent handlers
\* over the User table and its unique indexes
\* ------------------------------------------------------------------------

Emails == {"a@x.io", "b@x.io"}

Names == {"ann", "bob"}

\* the users a behaviour can start with
UserRows == { [id |-> "u0", name |-> "ann", email |-> "a@x.io"] }

Handlers == 1..MaxSignups

\* prisma.user.findUnique({ where: { email } })
FindUnique(email) == { u \in User : u.email = email }

\* a User table without the unique index on email
EmailTaken_noIndex(email) == FALSE

\* User_email_key
EmailTaken(email) == \E u \in User : u.email = email

\* User_name_key
NameTaken(name) == \E u \in User : u.name = name

signupUnchanged == <<scriptVars, secretVars, attempt, other, apiVars, served, pageVars, chatVars>>

\* a signup request reaches a handler; "" is a missing field
SignupReceive(i) ==
  /\ signup[i].step = "idle"
  /\ \E name \in Names \cup {""} : \E email \in Emails \cup {""} :
       signup' = [signup EXCEPT ![i] =
                    [step |-> "find", name |-> name, email |-> email,
                     status |-> 0, error |-> "",
                     registered |-> FindUnique(email) # {}]]
  /\ UNCHANGED <<signupUnchanged, User>>

\* the test of the fields and findUnique
SignupFind(i) ==
  /\ signup[i].step = "find"
  /\ \E dbOk \in BOOLEAN :
       signup' = [signup EXCEPT ![i] =
         IF signup[i].name = "" \/ signup[i].email = ""
         THEN [@ EXCEPT !.step = "done", !.status = 400]
         ELSE IF ~dbOk
         THEN [@ EXCEPT !.step = "done", !.status = 500, !.error = "unavailable"]
         ELSE IF FindUnique(signup[i].email) # {}
         THEN [@ EXCEPT !.step = "done", !.status = 400]
         ELSE [@ EXCEPT !.step = "create"]]
  /\ UNCHANGED <<signupUnchanged, User>>

\* bcrypt.hash, prisma.user.create and the 201 response; a unique index the
\* insert violates makes create throw, and the catch block answers 500
SignupCreate(i) ==
  /\ signup[i].step = "create"
  /\ \E dbOk \in BOOLEAN :
       IF ~dbOk \/ EmailTaken(signup[i].email) \/ NameTaken(signup[i].name)
       THEN /\ signup' = [signup EXCEPT
                             ![i].step = "done", ![i].status = 500,
                             ![i].error = IF dbOk THEN "unique" ELSE "unavailable"]
            /\ UNCHANGED User
       ELSE /\ User' = User \cup {[id |-> "u" \o ToString(i),
                                    name |-> signup[i].name,
                                    email |-> signup[i].email]}
            /\ signup' = [signup EXCEPT ![i].step = "done", ![i].status = 201]
  /\ UNCHANGED signupUnchanged

InitSignup ==
  /\ IdleScripts
  /\ IdleApi
  /\ served = <<>>
  /\ IdlePage
  /\ IdleChat
  /\ User \in SUBSET UserRows
  /\ signup = [i \in Handlers |->
                 [step |-> "idle", name |-> "", email |-> "", status |-> 0,
                  error |-> "", registered |-> FALSE]]

NextSignup ==
  \/ \E i \in Handlers : SignupReceive(i)
  \/ \E i \in Handlers : SignupFind(i)
  \/ \E i \in Handlers : SignupCreate(i)

SpecSignup == InitSignup /\ [][NextSignup]_vars

\* ------------------------------------------------------------------------
\* The project page: the effect that fetches the project and sets the
\* 10 second interval (page.tsx 694-705), and fetchProject (798-832).  A
\* state update, the render it causes and the effects of that render are
\* one step.
\* ------------------------------------------------------------------------

Statuses == {"PENDING", "PROCESSING", "COMPLETED"}

pageUnchanged == <<scriptVars, secretVars, attempt, other, apiVars, User, signup, served, chatVars>>

\* a callback of the interval that fetches whatever the status
TickFetches_always(closed) == TRUE

\* if (project?.status === 'PROCESSING'), on the project of the closure
TickFetches(closed) == closed = "PROCESSING"

\* the body of the effect: fetchProject() and setInterval
RunEffect(status, others) ==
  /\ inflight' = Append(others, "sent")
  /\ interval' = <<status>>
  /\ lastFetch' = <<"effect", status>>

\* the page is opened: first render with project null, then the effect
Mount ==
  /\ ~mounted
  /\ lastFetch = <<>>
  /\ mounted' = TRUE
  /\ project' = ""
  /\ serverStatus' \in Statuses
  /\ RunEffect("", <<>>)
  /\ UNCHANGED pageUnchanged

\* the callback of the interval, every 10 seconds
Tick ==
  /\ mounted
  /\ interval # <<>>
  /\ Len(inflight) < MaxInFlight
  /\ IF TickFetches(interval[1])
     THEN /\ inflight' = Append(inflight, "sent")
          /\ lastFetch' = <<"timer", project>>
     ELSE UNCHANGED <<inflight, lastFetch>>
  /\ UNCHANGED <<pageUnchanged, mounted, project, interval, serverStatus>>

\* GET /api/projects/{id} reaches the server, which reads the row
ServerAnswer ==
  \E i \in DOMAIN inflight :
    /\ inflight[i] = "sent"
    /\ inflight' = [inflight EXCEPT ![i] = serverStatus]
    /\ UNCHANGED <<pageUnchanged, mounted, project, interval, serverStatus, lastFetch>>

\* the sequence without its i-th element
Without(seq, i) == SubSeq(seq, 1, i - 1) \o SubSeq(seq, i + 1, Len(seq))

\* a response arrives: setProject(data.project); when project?.status
\* differs from that of the last render the cleanup clears the interval and
\* the effect runs again
FetchReturn ==
  \E i \in DOMAIN inflight :
    /\ mounted
    /\ inflight[i] # "sent"
    /\ project' = inflight[i]
    /\ IF inflight[i] # project
       THEN RunEffect(inflight[i], Without(inflight, i))
       ELSE /\ inflight' = Without(inflight, i)
            /\ UNCHANGED <<interval, lastFetch>>
    /\ UNCHANGED <<pageUnchanged, mounted, serverStatus>>

\* axios throws (network error or a status other than 2xx): setError, the
\* project of the state stays
FetchFail ==
  \E i \in DOMAIN inflight :
    /\ mounted
    /\ inflight' = Without(inflight, i)
    /\ UNCHANGED <<pageUnchanged, mounted, project, interval, serverStatus, lastFetch>>

\* the processing services write Project.status
ServerProgress ==
  /\ mounted
  /\ serverStatus' \in Statuses \ {serverStatus}
  /\ UNCHANGED <<pageUnchanged, mounted, project, interval, inflight, lastFetch>>

\* the page is left: the cleanup clears the interval, and what arrives
\* later finds no component
Unmount ==
  /\ mounted
  /\ mounted' = FALSE
  /\ interval' = <<>>
  /\ inflight' = <<>>
  /\ UNCHANGED <<pageUnchanged, project, serverStatus, lastFetch>>

InitPage ==
  /\ IdleScripts
  /\ IdleApi
  /\ User = {} /\ signup = <<>> /\ served = <<>>
  /\ IdlePage
  /\ IdleChat

NextPage ==
  \/ Mount
  \/ Tick
  \/ ServerAnswer
  \/ FetchReturn
  \/ FetchFail
  \/ ServerProgress
  \/ Unmount

\* setInterval fires its callback again and again while the interval is set
SpecPage == InitPage /\ [][NextPage]_vars /\ WF_vars(Tick)

\* ------------------------------------------------------------------------
\* The chat of the project page: connectToChat, disconnectFromChat, the
\* handlers of the socket and the cleanup on unmount (page.tsx 912-996,
\* 1031-1038).  A socket is its index in sockets.
\* ------------------------------------------------------------------------

chatUnchanged ==
  <<scriptVars, secretVars, attempt, other, apiVars, User, signup, served, project,
    interval, inflight, serverStatus, lastFetch>>

\* wsRef.current = null in onclose, whichever socket closed
OnCloseRef(socket) == 0

\* chatState.isConnected after onclose: set to false, whichever socket closed
OnCloseConnected(socket) == FALSE

\* socket.close(): a socket that is connecting or open starts to close
Close(socket) ==
  [sockets EXCEPT ![socket] =
     IF @ \in {"CONNECTING", "OPEN"} THEN "CLOSING" ELSE @]

\* a click on Connect that passes the guard: new WebSocket(wsUrl)
connectToChat ==
  /\ mounted
  /\ wsRef = 0 /\ project # ""
  /\ Len(sockets) < MaxSockets
  /\ sockets' = Append(sockets, "CONNECTING")
  /\ wsRef' = Len(sockets) + 1
  /\ UNCHANGED <<chatUnchanged, mounted, isConnected, connectionError>>

\* a click on Disconnect
disconnectFromChat ==
  /\ mounted
  /\ IF wsRef # 0
     THEN sockets' = Close(wsRef) /\ wsRef' = 0
     ELSE UNCHANGED <<sockets, wsRef>>
  /\ isConnected' = FALSE
  /\ UNCHANGED <<chatUnchanged, mounted, connectionError>>

\* the connection is established: onopen
SocketOpen ==
  \E socket \in DOMAIN sockets :
    /\ sockets[socket] = "CONNECTING"
    /\ sockets' = [sockets EXCEPT ![socket] = "OPEN"]
    /\ isConnected' = TRUE
    /\ connectionError' = FALSE
    /\ UNCHANGED <<chatUnchanged, mounted, wsRef>>

\* the connection fails: the socket is closed and the browser fires the
\* error event and the close event one after the other: onerror, onclose
SocketError ==
  \E socket \in DOMAIN sockets :
    /\ sockets[socket] \in {"CONNECTING", "OPEN", "CLOSING"}
    /\ sockets' = [sockets EXCEPT ![socket] = "CLOSED"]
    /\ connectionError' = TRUE
    /\ isConnected' = OnCloseConnected(socket)
    /\ wsRef' = OnCloseRef(socket)
    /\ UNCHANGED <<chatUnchanged, mounted>>

\* the connection is closed, by the server or after close(): onclose
SocketClose ==
  \E socket \in DOMAIN sockets :
    /\ sockets[socket] \in {"OPEN", "CLOSING"}
    /\ sockets' = [sockets EXCEPT ![socket] = "CLOSED"]
    /\ isConnected' = OnCloseConnected(socket)
    /\ wsRef' = OnCloseRef(socket)
    /\ UNCHANGED <<chatUnchanged, mounted, connectionError>>

\* the cleanup of the effect with no dependencies: the page is left
ChatUnmount ==
  /\ mounted
  /\ mounted' = FALSE
  /\ sockets' = IF wsRef # 0 THEN Close(wsRef) ELSE sockets
  /\ UNCHANGED <<chatUnchanged, wsRef, isConnected, connectionError>>

\* the page is open and the project is loaded
InitChat ==
  /\ IdleScripts
  /\ IdleApi
  /\ User = {} /\ signup = <<>> /\ served = <<>>
  /\ mounted = TRUE
  /\ project \in Statuses
  /\ interval = <<project>>
  /\ inflight = <<>>
  /\ serverStatus = project
  /\ lastFetch = <<"effect", project>>
  /\ IdleChat

NextChat ==
  \/ connectToChat
  \/ disconnectFromChat
  \/ SocketOpen
  \/ SocketError
  \/ SocketClose
  \/ ChatUnmount

SpecChat == InitChat /\ [][NextChat]_vars

\* ------------------------------------------------------------------------
\* deploy-k8s.sh: the namespace, the secret and the configmap it creates
\* from .env before it applies the manifests
\* ------------------------------------------------------------------------

\* what a run finds as .env: no file, a file that leaves a required variable
\* empty, or one of two complete sets of values
EnvFiles == {"none", "incomplete", "a", "b"}

\* [ ! -f ".env" ] and the loop over required_vars, both exit 1
EnvAccepted(env) == env \notin {"none", "incomplete"}

\* the arguments with which main calls create_secrets
SecretModes == {"secrets-only", "deploy", "full-setup"}

\* the object a kubectl command of the script stores or removes
Stored(name, what) == [objects EXCEPT ![name] = what]

secretsUnchanged ==
  <<attempt, other, apiVars, webVars, missing_tools, envVars, tmpImage,
    registry, flagVars, services_to_process, single, pending, built, lastRun>>

\* ./deploy-k8s.sh <mode>: the top of the script, down to the case of main
DeployK8sInvoke ==
  /\ pc = "idle"
  /\ runs < MaxRuns
  /\ runs' = runs + 1
  /\ script' = "deploy-k8s.sh"
  /\ atStart' = <<registry, cluster, objects>>
  /\ \E mode \in SecretModes : argv' = <<mode>>
  /\ \E env \in EnvFiles :
       IF EnvAccepted(env)
       THEN /\ dotenv' = <<env>>
            /\ pc' = "test_kubectl"
            /\ UNCHANGED failure
       ELSE /\ dotenv' = <<>>
            /\ pc' = "failed"
            /\ failure' = <<"env", env>>
  /\ UNCHANGED <<secretsUnchanged, cluster, objects, deployIdx, log>>

\* test_kubectl: kubectl cluster-info, exit 1 if it fails
TestKubectl ==
  /\ pc = "test_kubectl"
  /\ \E ok \in BOOLEAN :
       /\ pc' = IF ok THEN "create_namespace" ELSE "failed"
       /\ failure' = IF ok THEN failure ELSE <<"kubectl", "cluster-info">>
  /\ UNCHANGED <<secretsUnchanged, secretVars, cluster, script, argv, runs,
                 atStart, deployIdx, log>>

\* create_namespace: kubectl create namespace --dry-run=client -o yaml |
\* kubectl apply -f -
CreateNamespace ==
  /\ pc = "create_namespace"
  /\ log' = Append(log, <<"apply", NAMESPACE>>)
  /\ \E ok \in BOOLEAN :
       /\ objects' = IF ok THEN Stored(NAMESPACE, <<"applied">>) ELSE objects
       /\ pc' = IF ok THEN "delete_secret" ELSE "failed"
       /\ failure' = IF ok THEN failure ELSE <<"apply", NAMESPACE>>
  /\ UNCHANGED <<secretsUnchanged, dotenv, cluster, script, argv, runs,
                 atStart, deployIdx>>

\* kubectl delete <kind> <name> -n $NAMESPACE --ignore-not-found=true, then
\* the kubectl create that follows it at position next
DeleteObject(name, here, next) ==
  /\ pc = here
  /\ log' = Append(log, <<"delete", name>>)
  /\ \E ok \in BOOLEAN :
       /\ objects' = IF ok THEN Stored(name, Absent) ELSE objects
       /\ pc' = IF ok THEN next ELSE "failed"
       /\ failure' = IF ok THEN failure ELSE <<"delete", name>>
  /\ UNCHANGED <<secretsUnchanged, dotenv, cluster, script, argv, runs,
                 atStart, deployIdx>>

\* create_secrets, first command: the stored secret is deleted
DeleteSecret == DeleteObject(SECRET_NAME, "delete_secret", "create_secret")

\* what follows create_configmap in the case of main
AfterConfigmap ==
  CASE argv = <<"secrets-only">> -> "done"
    [] argv = <<"deploy">> -> "dm_loop"
    [] argv = <<"full-setup">> -> "deploy_jenkins"

\* kubectl create secret generic | configmap ... --from-literal=..., with the
\* values of .env
CreateObject(name, here, next) ==
  /\ pc = here
  /\ log' = Append(log, <<"create", name>>)
  /\ \E ok \in BOOLEAN :
       /\ objects' = IF ok THEN Stored(name, dotenv) ELSE objects
       /\ pc' = IF ok THEN next ELSE "failed"
       /\ failure' = IF ok THEN failure ELSE <<"create", name>>
       /\ deployIdx' = IF ok /\ next = "dm_loop" THEN 1 ELSE deployIdx
  /\ UNCHANGED <<secretsUnchanged, dotenv, cluster, script, argv, runs, atStart>>

\* create_secrets, second command
CreateSecret == CreateObject(SECRET_NAME, "create_secret", "delete_configmap")

\* create_configmap, first command
DeleteConfigmap ==
  DeleteObject(CONFIGMAP_NAME, "delete_configmap", "create_configmap")

\* create_configmap, second command
CreateConfigmap ==
  CreateObject(CONFIGMAP_NAME, "create_configmap", AfterConfigmap)

\* deploy_jenkins of deploy-k8s.sh: four kubectl apply under set -e, then
\* deploy_manifests
DeployK8sJenkins ==
  /\ pc = "deploy_jenkins"
  /\ log' = Append(log, <<"apply", "jenkins">>)
  /\ \E ok \in BOOLEAN :
       /\ cluster' = IF ok THEN Applied("jenkins", <<"applied">>) ELSE cluster
       /\ pc' = IF ok THEN "dm_loop" ELSE "failed"
       /\ failure' = IF ok THEN failure ELSE <<"apply", "jenkins">>
       /\ deployIdx' = IF ok THEN 1 ELSE deployIdx
  /\ UNCHANGED <<secretsUnchanged, secretVars, script, argv, runs, atStart>>

\* a cluster deploy-k8s.sh may have served before: no namespace, or the
\* namespace with a secret and a configmap, each stored by an earlier run or
\* not at all
InitSecrets ==
  /\ head = 1 /\ repo = "ok" /\ gitFiles = {}
  /\ tmpImage = [s \in ServiceNames |-> Absent]
  /\ registry = {}
  /\ cluster = [r \in Resources |-> Absent]
  /\ runs = 0
  /\ lastRun = <<>>
  /\ IdleRun
  /\ other = <<>>
  /\ IdleApi
  /\ IdleWeb
  /\ dotenv = <<>>
  /\ \E ns \in {Absent, <<"applied">>} :
       \E sec, cm \in {Absent, <<"a">>, <<"b">>} :
         /\ ns = Absent => sec = Absent /\ cm = Absent
         /\ objects = (NAMESPACE :> ns) @@ (SECRET_NAME :> sec)
                        @@ (CONFIGMAP_NAME :> cm)
  /\ atStart = <<registry, cluster, objects>>

NextSecrets ==
  \/ DeployK8sInvoke
  \/ TestKubectl
  \/ CreateNamespace
  \/ DeleteSecret
  \/ CreateSecret
  \/ DeleteConfigmap
  \/ CreateConfigmap
  \/ DeployK8sJenkins
  \/ DeployManifestsStep
  \/ CheckDeploymentStatus
  \/ Reinvoke

SpecSecrets == InitSecrets /\ [][NextSecrets]_vars

\* ------------------------------------------------------------------------
\* Vocabulary of the properties
\* ------------------------------------------------------------------------

\* the flags the command line of the run asks for
Asked == parse_args(argv, DefaultFlags)

\* the run was started without --build-all, -s, --monitoring or --jenkins
AutoDetect ==
  /\ script = "k8s-deploy.sh"
  /\ Asked.status = "ok"
  /\ ~Asked.BUILD_ALL
  /\ Asked.TARGET_SERVICE = ""

\* neither --skip-build nor --skip-deploy nor --dry-run
FullPipeline ==
  /\ Asked.status = "ok"
  /\ ~Asked.SKIP_BUILD /\ ~Asked.SKIP_DEPLOY /\ ~Asked.DRY_RUN

\* the positions of main after services_to_process was computed
Selected ==
  pc \in {"build", "apply_ns", "apply_db", "wait_db", "svc_apply",
          "svc_wait", "ingress", "health"}

ApplyEvents == { i \in 1..Len(log) : log[i][1] = "apply" }

WaitEvents == { i \in 1..Len(log) : log[i][1] = "wait" }

\* the services whose manifest this run handed to kubectl apply
AppliedServices == { log[i][2] : i \in ApplyEvents } \cap ServiceNames

\* the services whose rollout this run waited for
WaitedServices == { log[i][2] : i \in WaitEvents } \cap ServiceNames

\* every path of the set lies under the directory of service s
OnlyUnder(files, s) ==
  /\ files # {}
  /\ \A f \in files : f[1] = s /\ Len(f) >= 2 /\ f[2] = "/"

\* the path lies under an infrastructure prefix
IsInfraPath(f) ==
  \/ f[1] \in {"docker-compose", "Dockerfile"}
  \/ f[1] \in {"k8s", "infrastructure", "jenkins"} /\ Len(f) >= 2 /\ f[2] = "/"

\* ------------------------------------------------------------------------
\* C1  In auto-detect mode, when HEAD~1 exists and every changed file lies
\* under the directory of one service, that service and no other is
\* selected, built and deployed: the selection is exactly that service, no
\* other service is ever built or applied, and a full run that completes
\* has built and rolled out exactly that service.
\* ------------------------------------------------------------------------
C1_OnlyThatService ==
  \A s \in ServiceNames :
    (AutoDetect /\ repo = "ok" /\ OnlyUnder(gitFiles, s)) =>
      /\ Selected => services_to_process = {s}
      /\ built \subseteq {s}
      /\ AppliedServices \subseteq {s}
      /\ (pc = "done" /\ FullPipeline) =>
           (built = {s} /\ AppliedServices = {s} /\ WaitedServices = {s})

C1_Witness ==
  /\ AutoDetect /\ FullPipeline /\ repo = "ok" /\ pc = "done"
  /\ Cardinality(gitFiles) = 2
  /\ OnlyUnder(gitFiles, "web-app")
  /\ built = {"web-app"}
  /\ AppliedServices = {"web-app"}

\* ------------------------------------------------------------------------
\* C2  In auto-detect mode, when the changed-file set holds a path under an
\* infrastructure prefix, all four services are selected whatever else was
\* touched, and a full run that completes has built and rolled out all four.
\* ------------------------------------------------------------------------
C2_InfraSelectsAll ==
  (AutoDetect /\ repo # "broken" /\ \E f \in gitFiles : IsInfraPath(f)) =>
    /\ (Selected \/ pc = "done") =>
         (BUILD_ALL /\ services_to_process = ServiceNames)
    /\ (pc = "done" /\ FullPipeline) =>
         (built = ServiceNames /\ AppliedServices = ServiceNames
          /\ WaitedServices = ServiceNames)

C2_Witness ==
  /\ AutoDetect /\ FullPipeline /\ repo = "ok" /\ pc = "done"
  /\ gitFiles = { <<"docker-compose", ".yml">>, <<"README.md">> }
  /\ built = ServiceNames
  /\ AppliedServices = ServiceNames

\* ------------------------------------------------------------------------
\* C3  In auto-detect mode, when the changed-file set is empty the run is a
\* no-op: it never reaches the selection, builds and pushes nothing, issues
\* no kubectl apply or wait, and leaves the hand-off files, the registry and
\* the cluster as they were.
\* ------------------------------------------------------------------------
C3_EmptyIsNoOp ==
  (AutoDetect /\ changed_files = {}) =>
    /\ ~Selected /\ pc \notin {"select", "monitoring", "jenkins"}
    /\ built = {} /\ log = <<>>
    /\ registry = {}
    /\ \A s \in ServiceNames : tmpImage[s] = Absent
    /\ \A r \in Resources : cluster[r] = Absent

C3_Witness ==
  /\ AutoDetect /\ repo = "ok" /\ gitFiles = {} /\ pc = "done"
  /\ failure = <<>>

\* ------------------------------------------------------------------------
\* C4  In every run of each of the three scripts and for every subset of
\* selected services (or of manifests present), the manifests are handed to
\* kubectl apply in the order database, backend services, web-app, ingress:
\* no later tier is applied before an earlier one.
\* ------------------------------------------------------------------------
Tier(resource) ==
  CASE resource = "database" -> 1
    [] resource \in ServiceNames \ {"web-app"} -> 2
    [] resource = "web-app" -> 3
    [] resource = "ingress" -> 4
    [] OTHER -> 0

TierEvents == { i \in ApplyEvents : Tier(log[i][2]) # 0 }

C4_ApplyOrder ==
  \A i, j \in TierEvents : i < j => Tier(log[i][2]) <= Tier(log[j][2])

C4_Witness ==
  /\ script = "k8s-deploy.sh" /\ pc = "done"
  /\ AppliedServices = {"intelligence-service", "web-app"}
  /\ { Tier(log[i][2]) : i \in TierEvents } = {1, 2, 3, 4}

\* ------------------------------------------------------------------------
\* C5  (as stated) When two or more services are selected and the build or
\* push of one of them fails, every other selected service is still built
\* and deployed in that run.
\* ------------------------------------------------------------------------
BuildFailed == failure # <<>> /\ failure[1] = "build"

C8_FirstRunSelectsAll ==
  (/\ AutoDetect /\ FullPipeline /\ repo = "first"
   /\ ServicesMatching(gitFiles) # {}
   /\ pc = "done") =>
    /\ services_to_process = ServiceNames
    /\ built = ServiceNames
    /\ WaitedServices = ServiceNames

\* ------------------------------------------------------------------------
\* C9  If every git query of change detection fails, the run ends failed
\* (non-zero exit) and performs no build and no deploy.
\* ------------------------------------------------------------------------
C9_GitFailureIsFatal ==
  (AutoDetect /\ repo = "broken") =>
    /\ pc # "done"
    /\ built = {} /\ log = <<>>

\* ------------------------------------------------------------------------
\* C10  (as stated) A run moves through idle, detecting, building,
\* applying, waiting, probing in that order and ends done or failed; it
\* never returns to an earlier state, every build precedes the first apply,
\* and a finished run never resumes.
\* ------------------------------------------------------------------------
Phase(p) ==
  CASE p \in {"idle", "parse", "prereq", "dispatch"} -> 0
    [] p \in {"detect", "select"} -> 1
    [] p = "build" -> 2
    [] p \in {"su_parse", "su_prereq", "ds_prereq"} -> 0
    [] p \in {"su_terraform", "su_ansible", "ds_terraform", "ds_inventory",
              "ds_ping", "ds_check", "ds_playbook"} -> 2
    [] p \in {"apply_ns", "apply_db", "svc_apply", "ingress",
              "monitoring", "jenkins", "dm_loop", "dk_loop",
              "jk_tags", "jk_apply", "su_k8s", "dk_status", "su_jenkins",
              "su_monitoring"} -> 3
    [] p \in {"wait_db", "svc_wait", "jk_rollout"} -> 4
    [] p \in {"health", "dm_status", "jk_health", "jk_verify",
              "su_validate"} -> 5
    [] OTHER -> 6

CoarsePhase(p) == IF Phase(p) = 4 THEN 3 ELSE Phase(p)

SameRunAgain ==
  /\ script = "k8s-deploy.sh"
  /\ FullPipeline
  /\ lastRun = <<script, argv, commit_hash>>
  /\ AutoDetect =>
       /\ atStart[2]["namespace-secrets"] # Absent
       /\ atStart[2]["database"] # Absent

C6_SecondRunIdempotent ==
  (pc = "done" /\ SameRunAgain) =>
    /\ registry = atStart[1]
    /\ cluster = atStart[2]
    /\ \A s \in built : {image_tag(s), latest_tag(s)} \subseteq registry

C6_Witness ==
  /\ pc = "done" /\ SameRunAgain /\ AutoDetect
  /\ built = {"web-app", "embedding-service"}
  /\ WaitedServices = built
  /\ cluster["web-app"] = image_tag("web-app")

\* ------------------------------------------------------------------------
\* C7  After any sequence of earlier runs, deploy_service applies a
\* manifest whose image reference is rewritten to a tag T only when the
\* current run built tag T for that service; a service the current run did
\* not build gets its manifest applied unchanged.
\* ------------------------------------------------------------------------
C7_RewriteOnlyFreshBuild ==
  script = "k8s-deploy.sh" =>
    \A i \in ApplyEvents :
      log[i][2] \in ServiceNames =>
        \/ log[i][3] = ManifestImage(log[i][2])
        \/ log[i][2] \in built /\ log[i][3] = image_tag(log[i][2])

\* ------------------------------------------------------------------------
\* C11  (as stated) For every resource the run waits on, the database and
\* each deployed service, a wait that times out fails the run, rolls
\* nothing back, and no later resource is applied.
\* ------------------------------------------------------------------------
DatabaseTimeouts ==
  { i \in WaitEvents : log[i][2] = "database" /\ log[i][3] = "timeout" }

RolloutTimedOut == failure # <<>> /\ failure[1] = "rollout"

C11_TimeoutBlocksLater ==
  script = "k8s-deploy.sh" =>
    /\ \A i \in DatabaseTimeouts :
         /\ pc \in {"failed", "wait_db"}
         /\ \A j \in ApplyEvents : j < i
    /\ RolloutTimedOut => pc = "failed"

\* C11  (amended) When the rollout wait of a deployed service times out,
\* the run ends failed at that wait: the manifest just applied stays in the
\* cluster as applied, and no later resource is applied.  A timeout of the
\* wait for the database is passed over: the run goes on to deploy the
\* selected services and to apply the ingress.
C11_ServiceTimeoutBlocksLater ==
  script = "k8s-deploy.sh" =>
    /\ (RolloutTimedOut /\ failure[2] \in ServiceNames) =>
         /\ pc = "failed"
         /\ log[Len(log)] = <<"wait", failure[2]>>
         /\ log[Len(log) - 1][1] = "apply"
         /\ cluster[failure[2]] = log[Len(log) - 1][3]
    /\ (Len(log) \in DatabaseTimeouts) =>
         \/ pc \in {"svc_apply", "ingress"} /\ failure = <<>>
         \/ pc = "failed" /\ failure # <<>> /\ failure[1] = "manifest"

C11_Witness ==
  /\ script = "k8s-deploy.sh" /\ pc = "failed"
  /\ RolloutTimedOut /\ failure[2] = "intelligence-service"
  /\ DatabaseTimeouts # {}
  /\ AppliedServices = {"embedding-service", "intelligence-service"}
  /\ services_to_process = ServiceNames

\* ------------------------------------------------------------------------
\* C12  A failing health probe of a service is only logged: the step that
\* meets it neither ends the run failed nor changes what the cluster holds,
\* in k8s-deploy.sh and in the Jenkins pipeline alike.
\* ------------------------------------------------------------------------
ProbeFailed(l) ==
  /\ l # <<>>
  /\ l[Len(l)][1] = "probe"
  /\ l[Len(l)][2] # {}

C12_ProbeFailureOnlyLogged ==
  [][ (log' # log /\ ProbeFailed(log')) =>
        (pc' # "failed" /\ cluster' = cluster) ]_vars

\* ------------------------------------------------------------------------
\* C13  With --dry-run a script run makes no actual change: it builds and
\* pushes no image, applies no manifest to the cluster, runs no terraform
\* or ansible, and writes no file.
\* ------------------------------------------------------------------------
ChangeCommands == {"apply", "write", "terraform", "ansible"}

C13_DryRunChangesNothing ==
  DRY_RUN =>
    /\ registry = atStart[1]
    /\ cluster = atStart[2]
    /\ built = {}
    /\ \A s \in ServiceNames : tmpImage[s] = Absent
    /\ \A i \in 1..Len(log) : log[i][1] \notin ChangeCommands

\* ------------------------------------------------------------------------
\* C14  When k8s-deploy.sh is run with -s SERVICE, whatever value is given
\* as SERVICE, no service other than SERVICE is built or deployed by that
\* run.
\* ------------------------------------------------------------------------
C14_OnlyTargetService ==
  (script = "k8s-deploy.sh" /\ TARGET_SERVICE # "") =>
    /\ built \subseteq {TARGET_SERVICE}
    /\ AppliedServices \subseteq {TARGET_SERVICE}

\* ------------------------------------------------------------------------
\* C15  A command line on which parse_args meets an option it does not
\* know makes k8s-deploy.sh and the setup script alike exit non-zero from
\* parse_args, before any prerequisite check, build or deploy action.
\* ------------------------------------------------------------------------
KnownFlags(name) ==
  IF name = "k8s-deploy.sh"
  THEN {"--dry-run", "--build-all", "--skip-build", "--skip-deploy",
        "--monitoring", "--jenkins"}
  ELSE {"--dry-run", "--skip-terraform", "--skip-ansible", "--skip-k8s",
        "--skip-monitoring", "--skip-jenkins", "--include-k8s",
        "--include-monitoring", "--include-jenkins"}

ValuedFlags(name) ==
  IF name = "k8s-deploy.sh"
  THEN {"-e", "--environment", "-s", "--service"}
  ELSE {"-e", "--environment"}

\* the scan from left to right meets an unknown option before --help
RECURSIVE MeetsUnknownFlag(_, _)
MeetsUnknownFlag(args, name) ==
  IF args = <<>> THEN FALSE
  ELSE CASE Head(args) \in {"-h", "--help"} -> FALSE
         [] Head(args) \in ValuedFlags(name) ->
              Len(args) >= 2 /\ MeetsUnknownFlag(Rest(args, 2), name)
         [] Head(args) \in KnownFlags(name) -> MeetsUnknownFlag(Rest(args, 1), name)
         [] OTHER -> TRUE

C15_UnknownFlagExitsFirst ==
  (/\ script \in {"k8s-deploy.sh", "setup"}
   /\ pc \notin {"parse", "su_parse"}
   /\ MeetsUnknownFlag(argv, script)) =>
    /\ pc = "failed"
    /\ failure = <<"parse_args", "">>
    /\ built = {} /\ log = <<>>
    /\ registry = atStart[1] /\ cluster = atStart[2]

C15_Witness ==
  /\ script = "k8s-deploy.sh" /\ pc = "failed"
  /\ argv = <<"--skip-build", "--verbose">>
  /\ SKIP_BUILD

C15_WitnessSetup ==
  /\ script = "setup" /\ pc = "failed"
  /\ argv = <<"--dry-run", "--force">>

\* ------------------------------------------------------------------------
\* C16  If a required tool is absent (kubectl, and docker unless
\* --skip-build is given, for k8s-deploy.sh; terraform and ansible for
\* deploy.sh), the run exits non-zero at the prerequisite check, before
\* change detection, any image build and any manifest apply.
\* ------------------------------------------------------------------------
RequiredBy(name) ==
  IF name = "k8s-deploy.sh" THEN RequiredTools(SKIP_BUILD)
  ELSE {"terraform", "ansible"}

C16_MissingToolExitsFirst ==
  (/\ script \in {"k8s-deploy.sh", "deploy.sh"}
   /\ missing_tools \cap RequiredBy(script) # {}) =>
    /\ pc = "failed"
    /\ failure # <<>> /\ failure[1] = "prereq"
    /\ services_to_process = {} /\ built = {} /\ log = <<>>
    /\ registry = atStart[1] /\ cluster = atStart[2]

C16_Witness ==
  /\ script = "k8s-deploy.sh" /\ pc = "failed"
  /\ missing_tools = {"docker"} /\ ~SKIP_BUILD
  /\ argv = <<"--build-all">>

\* ------------------------------------------------------------------------
\* C17  The connectivity check of deploy.sh is a bounded retry loop: it
\* makes at most max_attempts ping attempts, the Ansible playbook runs only
\* if one of them succeeded, and after max_attempts failures the script
\* exits non-zero without running the playbook.
\* ------------------------------------------------------------------------
Pings == { i \in 1..Len(log) : log[i][1] = "ping" }

PingSucceeded == \E i \in Pings : log[i][2] = "ok"

PlaybookRan == \E i \in 1..Len(log) : log[i][1] = "ansible"

C17_BoundedRetry ==
  script = "deploy.sh" =>
    /\ Cardinality(Pings) <= max_attempts
    /\ attempt <= max_attempts + 1
    /\ PlaybookRan => PingSucceeded
    /\ (/\ Cardinality(Pings) = max_attempts /\ ~PingSucceeded
        /\ pc \notin {"ds_ping", "ds_check"}) =>
         /\ pc = "failed"
         /\ failure = <<"connectivity", "">>
         /\ ~PlaybookRan

C17_Witness ==
  /\ script = "deploy.sh" /\ pc = "failed"
  /\ failure = <<"connectivity", "">>
  /\ Cardinality(Pings) = max_attempts /\ ~PingSucceeded
  /\ attempt = max_attempts + 1

\* ------------------------------------------------------------------------
\* C18  Concurrent runs of the deployment script are not coordinated: no
\* lock excludes a second run, which can start whatever the first is doing
\* and is never held back by it, so that two runs can be inside
\* deploy_service for the same service on the same cluster at once, their
\* applies falling in either order.
\* ------------------------------------------------------------------------
C18_SecondRunNeverExcluded ==
  /\ other = <<>> => ENABLED OtherStart
  /\ (other # <<>> /\ other.pc = "svc_apply") => ENABLED OtherDeployServiceApply
  /\ pc = "svc_apply" => ENABLED DeployServiceApply

OtherApplies ==
  IF other = <<>> THEN {}
  ELSE { i \in 1..Len(other.log) : other.log[i][1] = "apply" }

\* both runs have applied the manifest of web-app and neither has finished
\* its rollout wait; the second run applied first
C18_Witness ==
  /\ pc = "svc_wait" /\ deploy_order[deployIdx] = "web-app"
  /\ other # <<>> /\ other.pc = "svc_wait" /\ other.service = "web-app"
  /\ \E i \in OtherApplies : \E j \in ApplyEvents :
       log[j][2] = "web-app" /\ other.log[i][4] < j

\* the same with the applies in the other order
C18_WitnessFirstRunFirst ==
  /\ pc = "svc_wait" /\ deploy_order[deployIdx] = "web-app"
  /\ other # <<>> /\ other.pc = "svc_wait" /\ other.service = "web-app"
  /\ \E i \in OtherApplies : \E j \in ApplyEvents :
       log[j][2] = "web-app" /\ other.log[i][4] >= j

\* ------------------------------------------------------------------------
\* C19  After DELETE /api/projects/{id} returns 200, no Project, Video,
\* Transcript or Embedding row of that project remains, and the rows were
\* deleted in the order transcripts, videos, embedding, project; at no
\* moment does a row reference a row that was deleted.
\* ------------------------------------------------------------------------
C19_ProjectDeleteLeavesNothing ==
  /\ ForeignKeysHold
  /\ (request # <<>> /\ request.op = "DELETE project" /\ request.status = 200) =>
       /\ ~\E pr \in Project : pr.id = request.projectId
       /\ VideosOf(request.projectId) = {}
       /\ EmbeddingsOf(request.projectId) = {}
       /\ TranscriptsOfProject(request.projectId) = {}
       /\ request.deleted = <<"Transcript", "Video", "Embedding", "Project">>

\* a project with a video that has a transcript was deleted
C19_Witness ==
  /\ request # <<>> /\ request.op = "DELETE project" /\ request.status = 200
  /\ \E v, t \in request.found : "videoId" \in DOMAIN t /\ t.videoId = v.id

\* ------------------------------------------------------------------------
\* C20  DELETE /api/projects/{p}/videos/{v} of a video the caller owns
\* deletes the Transcript rows of the video before the Video row, so that,
\* the database being available, the request succeeds for a video with
\* transcripts as for one without, and leaves neither the Video row nor a
\* Transcript row that references it.
\* ------------------------------------------------------------------------
C20_VideoDeleteRemovesTranscripts ==
  (/\ request # <<>> /\ request.op = "DELETE video"
   /\ request.step = "done"
   /\ request.status \notin {401, 404}
   /\ request.error # "unavailable") =>
    /\ request.status = 200
    /\ TranscriptsOf(request.videoId) = {}
    /\ ~\E v \in Video : v.id = request.videoId

\* ------------------------------------------------------------------------
\* C21  The S3 and Pinecone cleanup of a project deletion is best effort: a
\* failed object deletion or a failed namespace deletion lets the handler go
\* on to the database deletes, and a 500 of the handler is always the
\* database's doing, never the cleanup's.
\* ------------------------------------------------------------------------
C21_CleanupIsBestEffort ==
  (request # <<>> /\ request.op = "DELETE project") =>
    /\ (request.s3Failed # {} \/ request.pineconeFailed) =>
         /\ request.step \in {"delete", "done"}
         /\ request.step = "done" => request.status \in {200, 500}
    /\ request.status = 500 => request.error \in {"unavailable", "refused"}
    /\ request.status = 200 => /\ ~\E pr \in Project : pr.id = request.projectId
                               /\ VideosOf(request.projectId) = {}

\* every object deletion and the namespace deletion failed, and the project
\* that had a video was deleted with 200
C21_Witness ==
  /\ request # <<>> /\ request.op = "DELETE project" /\ request.status = 200
  /\ request.before.videos # {}
  /\ request.s3Failed = ObjectKeys(request.found)
  /\ request.pineconeFailed
  /\ ObjectKeys(request.before.videos) \subseteq S3
  /\ ~\E pr \in Project : pr.id = request.projectId

\* ------------------------------------------------------------------------
\* C26  A project DELETE that ends with 500 leaves the project as the
\* request found it: the Project row, its Video, Transcript and Embedding
\* rows and the S3 objects of those rows are all still there, also when a
\* video is added to the project while the delete runs.
\* ------------------------------------------------------------------------
C26_FailedDeleteChangesNothing ==
  (request # <<>> /\ request.op = "DELETE project" /\ request.status = 500) =>
    /\ request.before.project \subseteq Project
    /\ request.before.videos \subseteq Video
    /\ request.before.transcripts \subseteq Transcript
    /\ request.before.embeddings \subseteq Embedding
    /\ request.before.objects \subseteq S3

\* ------------------------------------------------------------------------
\* C22  Whatever the order and interleaving of the signup requests, no two
\* User rows share an email; a signup whose email was registered when the
\* request arrived is answered 400 unless the database is unavailable, and
\* in no case creates a user; only a signup answered 201 creates one.
\* ------------------------------------------------------------------------
C22_UniqueEmail ==
  /\ \A u, w \in User : u.email = w.email => u = w
  /\ \A i \in Handlers :
       LET created == \E u \in User : u.id = "u" \o ToString(i)
       IN /\ created <=> signup[i].status = 201
          /\ signup[i].registered =>
               /\ ~created
               /\ signup[i].step = "done" =>
                    \/ signup[i].status = 400
                    \/ signup[i].status = 500 /\ signup[i].error = "unavailable"

\* two signups with the same new email both passed findUnique; one created
\* the user and the other was refused by the index
C22_Witness ==
  \E i, j \in Handlers :
    /\ i # j
    /\ signup[i].email = signup[j].email
    /\ ~signup[i].registered /\ ~signup[j].registered
    /\ signup[i].status = 201
    /\ signup[j].status = 500 /\ signup[j].error = "unique"
    /\ signup[j].name # signup[i].name

\* a signup with a registered email was answered 400
C22_WitnessRegistered ==
  \E i \in Handlers :
    signup[i].registered /\ signup[i].name # "" /\ signup[i].status = 400

\* ------------------------------------------------------------------------
\* C23  Every project and video operation requires authentication and
\* ownership: a request without a valid token is answered 401 (or 400 where
\* the body is tested first) and neither discloses nor does anything, and no
\* answer discloses, changes or sends to the processing service a project or
\* a video of a project that another user owns.
\* ------------------------------------------------------------------------
Owns(userId, projectId) ==
  \A pr \in Project : pr.id = projectId => pr.ownerId = userId

OwnsVideo(userId, videoId) ==
  \A v \in Video : v.id = videoId => Owns(userId, v.projectId)

C23_AuthenticationAndOwnership ==
  /\ served # <<>> =>
       /\ served.userId = "" =>
            /\ served.status \in {400, 401}
            /\ served.read = {} /\ served.changed = {}
            /\ served.forwarded = <<>> /\ served.signedKey = <<>>
       /\ \A p \in served.read \cup served.changed : Owns(served.userId, p)
       /\ served.forwarded # <<>> =>
            /\ Owns(served.userId, served.forwarded[1])
            /\ OwnsVideo(served.userId, served.forwarded[2])
  /\ (request # <<>> /\ request.deleted # <<>>) =>
       \A pr \in request.before.project : pr.ownerId = request.userId

\* ------------------------------------------------------------------------
\* C24  POST /api/signed-url signs key K for user U only if K is the key of
\* a video in a project of U (a videoId is given) or K starts with
\* uploads/U/ (no videoId is given); for every other key the answer is 403
\* or 404 and nothing is signed.
\* ------------------------------------------------------------------------
Entitled(userId, key, videoId) ==
  IF videoId # ""
  THEN \E v \in Video : S3Key(v) = key /\ FindVideo(v.id, userId) # {}
  ELSE StartsWith(key, <<"uploads", userId>>)

C24_SignsOnlyOwnKeys ==
  (served # <<>> /\ served.op = "POST signed-url") =>
    /\ served.signedKey # <<>> =>
         Entitled(served.userId, served.signedKey, served.videoId)
    /\ (/\ served.userId # "" /\ served.key # <<>> /\ served.status # 500
        /\ ~Entitled(served.userId, served.key, served.videoId)) =>
         /\ served.status \in {403, 404}
         /\ served.signedKey = <<>>

OpenSockets == { socket \in DOMAIN sockets : sockets[socket] = "OPEN" }

C29_OneOpenSocket ==
  mounted =>
    /\ Cardinality(OpenSockets) <= 1
    /\ isConnected => wsRef \in OpenSockets

\* ------------------------------------------------------------------------
\* C27  After a successful run of the Jenkins pipeline each of the four
\* deployments runs the image tagged <branch>-<commit> of that run: the
\* stage 'Deploy/Update Manifests' does not replace the image that the
\* stage 'Update Image Tags' set.
\* ------------------------------------------------------------------------
C27_PipelineImageSurvives ==
  (script = "Jenkinsfile" /\ pc = "done") =>
    \A i \in DOMAIN PipelineServices :
      cluster[PipelineServices[i]] = PipelineImage(PipelineServices[i])

\* ------------------------------------------------------------------------
\* C28  With two runs of k8s-deploy.sh interleaved on one host, each run
\* deploys for a service either the tag that this same run built or the
\* manifest's own reference: the second run, which builds nothing, deploys
\* the manifest's reference only, and the first run deploys its own tag for
\* every service it built.
\* ------------------------------------------------------------------------
C28_OwnHandOffOnly ==
  /\ \A i \in DOMAIN log :
       (log[i][1] = "apply" /\ log[i][2] \in ServiceNames) =>
         log[i][3] = IF log[i][2] \in built THEN image_tag(log[i][2])
                     ELSE ManifestImage(log[i][2])
  /\ other # <<>> =>
       \A i \in DOMAIN other.log :
         other.log[i][1] = "apply" => other.log[i][3] = ManifestImage(other.log[i][2])

\* C30: once videocopilot-secrets is stored in the cluster, a run of
\* deploy-k8s.sh that deploys the secrets and fails at any step leaves a
\* secret of that name in the cluster.
C30_FailedRunKeepsSecret ==
  (/\ script = "deploy-k8s.sh"
   /\ pc = "failed"
   /\ Len(atStart) = 3
   /\ atStart[3][SECRET_NAME] # Absent) =>
    objects[SECRET_NAME] # Absent

====
